---- MODULE Spec2Model ----
(***************************************************************************)
(* Model of the dsinfer inference pipeline of synthrt:                     *)
(*   - the five stage runners (Duration, Pitch, Variance, Acoustic,        *)
(*     Vocoder): initialize / start / stop / result and the task state;    *)
(*   - the command line driver exec() that threads the score context       *)
(*     through the five stages.                                            *)
(*                                                                         *)
(* SpecStage  one stage instance used by a client thread that calls        *)
(*            initialize() and start() one after the other, and a second   *)
(*            thread that may call stop() at any moment.                   *)
(* Spec       one run of the command line driver (main / exec).            *)
(***************************************************************************)
EXTENDS Integers, Sequences, FiniteSets, TLC

VARIABLES
    kind,            \* which Inference subclass the instance is ("None": no instance)
    state,           \* ITask::state()
    implDriver,      \* Impl::driver is non-null
    encoderSession,  \* Impl::encoderSession: "null", "closed" or "open"
    session,         \* Impl::session / Impl::predictorSession
    implResult,      \* Impl::result
    pc,              \* where the caller of start() is inside start(); "crashed"
                     \* once the process has died on a null session handle
    startInput,      \* the input object given to the start() in flight
    ret,             \* what the last initialize()/start() returned
    stopRet,         \* what the last stop() returned
    calls,           \* number of initialize()/start() calls made so far
    stops,           \* number of stop() calls made so far
    stopped,         \* a stop() happened while the current start() was in flight
    \* the command line driver (main / exec)
    epc,             \* where main/exec is ("off": no driver is running)
    stageIdx,        \* the stage block exec is in (index into StageOrder)
    acousticConfig,  \* exec's local acousticConfig
    vocoderConfig,   \* exec's local vocoderConfig
    schema,          \* the variance schema's predictions
    words,           \* score context: input.input->words
    parameters,      \* score context: input.input->parameters
    mel,             \* exec's local mel
    f0,              \* exec's local f0
    audioData,       \* exec's local audioData
    wav,             \* the WAV file written, or NoWav
    exitCode,        \* what main returned ("none" while it runs)
    errorMsg,        \* the exception thrown by exec
    events,          \* history: <<stage, event>> pairs of this run
    snapshot,        \* history: the score context when the last write-back ended
    \* one stage's pre- and post-processing taken alone
    fpc,             \* where the computation is ("off": not in use)
    fin,             \* its input
    fout             \* what it has produced so far

stageVars == <<kind, state, implDriver, encoderSession, session, implResult>>
callVars == <<pc, startInput, ret, stopRet, calls, stops, stopped>>
execVars == <<epc, stageIdx, acousticConfig, vocoderConfig, schema, words,
              parameters, mel, f0, audioData, wav, exitCode, errorMsg, events,
              snapshot>>
fnVars == <<fpc, fin, fout>>
vars == <<stageVars, callVars, execVars, fnVars>>

\* Bound on the number of initialize()/start() calls the client makes.
MaxCalls == 3

\* Bound on the number of stop() calls.
MaxStops == 2

Kinds == {"Duration", "Pitch", "Variance", "Acoustic", "Vocoder"}

\* The state of a task object that has not been initialized.
InitialState == "Uninitialised"

\* Duration, Pitch and Variance own a linguistic encoder session and a
\* predictor session; Acoustic and Vocoder own a single session.
TwoSession(k) == k \in {"Duration", "Pitch", "Variance"}

NoOutput == [type |-> "none"]
NoResult == [id |-> 0, out |-> NoOutput]
NoInput == [type |-> "none"]
NoRet == [op |-> "none", ok |-> TRUE, err |-> "none", val |-> NoResult]

(***************************************************************************)
(* Numbers.  A double is modelled by the exact rational [n, d] (d > 0, in  *)
(* lowest terms) it stands for; d = 0 marks a value that is not finite:    *)
(* NaN is 0/0 and +infinity is 1/0.                                        *)
(***************************************************************************)
RECURSIVE GCD(_, _)
GCD(a, b) == IF b = 0 THEN a ELSE GCD(b, a % b)
Abs(x) == IF x < 0 THEN -x ELSE x
Rat(n, d) ==
    LET g == GCD(Abs(n), Abs(d))
        sgn == IF d < 0 THEN -1 ELSE 1
    IN  [n |-> (sgn * n) \div g, d |-> (sgn * d) \div g]
RatOf(i) == [n |-> i, d |-> 1]
RatZero == RatOf(0)
NaN == [n |-> 0, d |-> 0]
Inf == [n |-> 1, d |-> 0]
IsFinite(x) == x.d # 0
RatAdd(a, b) ==
    IF IsFinite(a) /\ IsFinite(b) THEN Rat(a.n * b.d + b.n * a.d, a.d * b.d)
    ELSE IF a = NaN \/ b = NaN THEN NaN ELSE Inf
RatMul(a, b) == Rat(a.n * b.n, a.d * b.d)
RatDiv(a, b) == Rat(a.n * b.d, a.d * b.n)
RatLeq(a, b) == a.n * b.d <= b.n * a.d

(***************************************************************************)
(* The data the driver threads through the stages.                         *)
(***************************************************************************)
\* Bound on the length of the parameter list of the input document.
MaxParams == 2

\* Bound on the number of phones of the first word of the input document.
MaxPhones == 2

\* The fields the driver compares, in the order it compares them.
Fields == <<"sampleRate", "hopSize", "winSize", "fftSize", "melChannels",
            "melMinFreq", "melMaxFreq", "melBase", "melScale">>
FieldSet == {Fields[i] : i \in 1..Len(Fields)}

\* Two values for every configuration field.
ConfigValues ==
    [sampleRate |-> <<44100, 48000>>, hopSize |-> <<512, 256>>,
     winSize |-> <<2048, 1024>>, fftSize |-> <<2048, 4096>>,
     melChannels |-> <<128, 80>>, melMinFreq |-> <<40, 0>>,
     melMaxFreq |-> <<16000, 8000>>, melBase |-> <<"e", "10">>,
     melScale |-> <<"slaney", "htk">>]

AcousticConfigs ==
    {[f \in FieldSet |-> ConfigValues[f][IF f \in D THEN 2 ELSE 1]] :
        D \in {{}, {"sampleRate"}}}
VocoderConfigs ==
    {[f \in FieldSet |-> ConfigValues[f][IF f \in D THEN 2 ELSE 1]] :
        D \in SUBSET FieldSet}
NoConfig == [f \in FieldSet |-> IF f \in {"melBase", "melScale"} THEN "unset" ELSE 0]

\* Parameter tags of the input document and of the variance schema.
InputTags == {"pitch", "energy", "breathiness"}
VarianceTags == {"energy", "breathiness"}

\* Co::InputParameterInfo
Param(t, v, i, r) == [tag |-> t, values |-> v, interval |-> i, retake |-> r]
UserParam(t) == Param(t, <<t, "user">>, "user", "window")
InputParameterLists ==
    UNION {[1..n -> {UserParam(t) : t \in InputTags}] : n \in 0..MaxParams}

\* The values a model predicts for a tag.
PredValues(t) == <<t, "pred">>

Injective(f) == \A i, j \in DOMAIN f : f[i] = f[j] => i = j
Schemas ==
    {sc \in UNION {[1..n -> VarianceTags] : n \in 1..Cardinality(VarianceTags)} :
        Injective(sc)}

\* Co::InputWordInfo, reduced to the phones and their start.
WordOf(n, w) == [phones |-> [j \in 1..n |-> [start |-> RatZero]], dur |-> RatOf(w)]
Word(n) == WordOf(n, 2)
InputWords == {<<Word(n)>> : n \in 1..MaxPhones} \cup {<<Word(MaxPhones), Word(1)>>}
DurationValues == {RatOf(1), RatOf(2)}

RECURSIVE getPhoneCount(_)
getPhoneCount(ws) ==
    IF ws = <<>> THEN 0 ELSE Len(Head(ws).phones) + getPhoneCount(Tail(ws))

\* The predictions of a variance result: one InputParameterInfo for every
\* session output "<tag>_pred" that matches a schema prediction, in the
\* order of the session's output map.
VariancePredictions ==
    {[i \in 1..Len(schema) |-> Param(schema[p[i]], PredValues(schema[p[i]]),
                                     "frameWidth", "none")] :
        p \in {q \in [1..Len(schema) -> 1..Len(schema)] : Injective(q)}}

\* A failed step of a computation, as start() reports it.
Failure(cls, msg) == [ok |-> FALSE, cls |-> cls, msg |-> msg, setsFailed |-> TRUE]

\* inferutil::getWordDuration(word)
getWordDuration(word) == word.dur

\* predWordDur: the sum of durationVector[begin .. end-1] (first is begin+1
\* in the numbering from 1 kept here)
RECURSIVE sumRange(_, _, _)
sumRange(vec, first, last) ==
    IF first > last THEN RatZero
    ELSE RatAdd(vec[first], sumRange(vec, first + 1, last))

\* Faulty variant of scaleDurations: begin is not advanced to end after a
\* word.
RECURSIVE scaleDurationsNoAdvance(_, _, _)
scaleDurationsNoAdvance(ws, durationVector, begin) ==
    IF ws = <<>> THEN [ok |-> TRUE, durations |-> durationVector]
    ELSE LET word == Head(ws)
             phNum == Len(word.phones)
             end == begin + phNum
             predWordDur == sumRange(durationVector, begin + 1, end)
             scaleFactor == RatDiv(getWordDuration(word), predWordDur)
         IN  IF phNum = 0
             THEN Failure("SessionError", "index out of bounds")
             ELSE IF begin >= Len(durationVector) \/ end > Len(durationVector)
             THEN [ok |-> TRUE, durations |-> durationVector]
             ELSE IF predWordDur = RatZero \/ ~IsFinite(predWordDur)
             THEN Failure("SessionError", "invalid predicted word duration")
             ELSE scaleDurationsNoAdvance(Tail(ws),
                    [i \in 1..Len(durationVector) |->
                        IF begin < i /\ i <= end
                        THEN RatMul(durationVector[i], scaleFactor)
                        ELSE durationVector[i]],
                    begin)

\* "Scale the results to adapt to original word sizes": the loop over the
\* words of DurationInference::start.  begin counts from 0 as in the code.
RECURSIVE scaleDurations(_, _, _)
scaleDurations(ws, durationVector, begin) ==
    IF ws = <<>> THEN [ok |-> TRUE, durations |-> durationVector]
    ELSE LET word == Head(ws)
             phNum == Len(word.phones)
             wordDur == getWordDuration(word)
             end == begin + phNum
             predWordDur == sumRange(durationVector, begin + 1, end)
             scaleFactor == RatDiv(wordDur, predWordDur)
         IN  IF phNum = 0
             THEN Failure("SessionError", "index out of bounds")
             ELSE IF begin >= Len(durationVector) \/ end > Len(durationVector)
             THEN [ok |-> TRUE, durations |-> durationVector]
             ELSE IF predWordDur = RatZero \/ ~IsFinite(predWordDur)
             THEN Failure("SessionError", "invalid predicted word duration")
             ELSE scaleDurations(Tail(ws),
                    [i \in 1..Len(durationVector) |->
                        IF begin < i /\ i <= end
                        THEN RatMul(durationVector[i], scaleFactor)
                        ELSE durationVector[i]],
                    end)

\* Faulty variant of durationFinish: the predicted count is not compared
\* with the phone count.
durationFinishNoCountCheck(ws, view) ==
    IF view = <<>> THEN Failure("SessionError", "model output is empty")
    ELSE scaleDurations(ws, view, 0)

\* The end of DurationInference::start, from the ph_dur_pred output view to
\* the result: empty output, scaling, count check.
durationFinish(ws, view) ==
    IF view = <<>> THEN Failure("SessionError", "model output is empty")
    ELSE LET scaled == scaleDurations(ws, view, 0)
         IN  IF ~scaled.ok THEN scaled
             ELSE IF Len(scaled.durations) # getPhoneCount(ws)
             THEN Failure("SessionError", "predicted phoneme count mismatch")
             ELSE scaled

\* What a successful start() can return for a given input.
SessionOutputs(k, inp) ==
    CASE inp.type = "opaque" -> {[type |-> "opaque"]}
      [] k = "Duration" ->
           {[type |-> "duration", durations |-> durationFinish(inp.words, d).durations] :
               d \in [1..getPhoneCount(inp.words) -> DurationValues]}
      [] k = "Pitch" ->
           {[type |-> "pitch", pitch |-> PredValues("pitch"),
             interval |-> "frameWidth"]}
      [] k = "Variance" ->
           {[type |-> "variance", predictions |-> ps] : ps \in VariancePredictions}
      [] k = "Acoustic" -> {[type |-> "acoustic", mel |-> "mel", f0 |-> "f0"]}
      [] OTHER -> {[type |-> "vocoder", audioData |-> "pcm"]}

(***************************************************************************)
(* A freshly constructed Inference object: Impl holds null handles.        *)
(***************************************************************************)
NewInstance(k) ==
    /\ kind' = k
    /\ state' = InitialState
    /\ implDriver' = FALSE
    /\ encoderSession' = "null"
    /\ session' = "null"
    /\ implResult' = NoResult

(***************************************************************************)
(* Returning from initialize() or start().                                 *)
(***************************************************************************)
returnValue(o, r) ==
    /\ ret' = [op |-> o, ok |-> TRUE, err |-> "none", val |-> r]
    /\ pc' = "idle"

\* "setState(Failed); return error;" and the few "return error;" that leave
\* the state alone.
returnError(o, cls, setsFailed) ==
    /\ ret' = [op |-> o, ok |-> FALSE, err |-> cls, val |-> NoResult]
    /\ pc' = "idle"
    /\ state' = IF setsFailed THEN "Failed" ELSE state

(***************************************************************************)
(* initialize(args).  The outcome o is what the environment answers:       *)
(* whether the inference driver is registered, the configuration is of     *)
(* the right class, and the session(s) open.                               *)
(***************************************************************************)
InitArgs == {"null", "wrong_name", "ok"}

InitOutcomes(k) ==
    {"no_driver", "bad_config", "open_fail", "ok"}
        \cup (IF TwoSession(k) THEN {"encoder_open_fail"} ELSE {})

\* The last statement of a successful initialize(): every stage but the
\* vocoder ends with setState(Idle).
initializeFinalState(k, s) == IF k = "Vocoder" THEN s ELSE "Idle"

initialize(a, o) ==
    /\ pc = "idle"
    /\ calls' = calls + 1
    /\ stopped' = FALSE
    /\ UNCHANGED <<kind, startInput, stopRet, stops>>
    /\ IF a # "ok"
       THEN \* args is nullptr, or args->objectName() is not API_NAME
            /\ returnError("initialize", "bad_args", FALSE)
            /\ UNCHANGED <<implDriver, encoderSession, session, implResult>>
       ELSE /\ implResult' = NoResult
            /\ CASE o = "no_driver" ->
                      /\ returnError("initialize", "no_driver", TRUE)
                      /\ UNCHANGED <<implDriver, encoderSession, session>>
                 [] o = "bad_config" ->
                      /\ returnError("initialize", "bad_config", TRUE)
                      /\ implDriver' = TRUE
                      /\ UNCHANGED <<encoderSession, session>>
                 [] o = "encoder_open_fail" ->
                      /\ returnError("initialize", "session", TRUE)
                      /\ implDriver' = TRUE
                      /\ encoderSession' = "closed"
                      /\ UNCHANGED session
                 [] o = "open_fail" ->
                      /\ returnError("initialize", "session", TRUE)
                      /\ implDriver' = TRUE
                      /\ encoderSession' =
                            IF TwoSession(kind) THEN "open" ELSE encoderSession
                      /\ session' = "closed"
                 [] o = "ok" ->
                      /\ returnValue("initialize", NoResult)
                      /\ implDriver' = TRUE
                      /\ encoderSession' =
                            IF TwoSession(kind) THEN "open" ELSE encoderSession
                      /\ session' = "open"
                      /\ state' = initializeFinalState(kind, state)

(***************************************************************************)
(* start(input).  Every return statement of start() that reports an error  *)
(* is a fault [cls, setsFailed]: cls is the kind of error and setsFailed   *)
(* tells whether setState(Failed) precedes the return.                     *)
(***************************************************************************)
Fault(cls, setsFailed) == [cls |-> cls, setsFailed |-> setsFailed]

\* Error returns of start() between setState(Running) and the first use of
\* a session.
PreFaults(k) ==
    CASE k = "Vocoder" -> {Fault("bad_input", TRUE)}
      [] k = "Acoustic" -> {Fault("bad_input", TRUE), Fault("preprocess", TRUE),
                            Fault("tensor", TRUE)}
      [] OTHER -> {Fault("bad_input", TRUE), Fault("preprocess", TRUE)}

\* Error returns of start() between the encoder run and the predictor run.
Pre2Faults(k) ==
    CASE k = "Duration" -> {Fault("preprocess", TRUE), Fault("tensor", TRUE),
                            Fault("tensor", FALSE)}
      [] k = "Pitch" -> {Fault("preprocess", TRUE), Fault("preprocess", FALSE),
                         Fault("tensor", TRUE)}
      [] k = "Variance" -> {Fault("preprocess", TRUE), Fault("tensor", TRUE)}
      [] OTHER -> {}

\* Error returns of start() after the session has produced a result.
OutputFaults(k) == {Fault("bad_output", TRUE)}


\* Faulty variant of startError: the failing start() also drops the stored
\* result.
startErrorClearsResult(f) ==
    /\ returnError("start", f.cls, f.setsFailed)
    /\ implResult' = NoResult
    /\ UNCHANGED <<kind, implDriver, encoderSession, session>>
    /\ UNCHANGED <<startInput, stopRet, calls, stops, stopped>>

startError(f) ==
    /\ returnError("start", f.cls, f.setsFailed)
    /\ UNCHANGED <<kind, implDriver, encoderSession, session, implResult>>
    /\ UNCHANGED <<startInput, stopRet, calls, stops, stopped>>

startContinue(next) ==
    /\ pc' = next
    /\ UNCHANGED <<stageVars, startInput, ret, stopRet, calls, stops, stopped>>

\* The driver check under the shared lock, then setState(Running).
start(inp) ==
    /\ pc = "idle"
    /\ calls' = calls + 1
    /\ stopped' = FALSE
    /\ startInput' = inp
    /\ UNCHANGED <<kind, implDriver, encoderSession, session, implResult>>
    /\ UNCHANGED <<stopRet, stops>>
    /\ IF ~implDriver
       THEN returnError("start", "no_driver", TRUE)
       ELSE /\ state' = "Running"
            /\ pc' = "pre"
            /\ UNCHANGED ret

\* Configuration and input checks and the construction of the first tensors.
startPreprocess ==
    /\ UNCHANGED fnVars
    /\ UNCHANGED execVars
    /\ pc = "pre"
    /\ \/ \E f \in PreFaults(kind) : startError(f)
       \/ startContinue(IF TwoSession(kind) THEN "enc" ELSE "run")

\* The linguistic encoder run, under the write lock.
startEncoder ==
    /\ UNCHANGED fnVars
    /\ UNCHANGED execVars
    /\ pc = "enc"
    /\ IF encoderSession # "open"
       THEN startError(Fault("closed", TRUE))
       ELSE \/ startError(Fault("session", TRUE))
            \/ startContinue("pre2")

\* The predictor's input tensors.
startPreprocess2 ==
    /\ UNCHANGED fnVars
    /\ UNCHANGED execVars
    /\ pc = "pre2"
    /\ \/ \E f \in Pre2Faults(kind) : startError(f)
       \/ startContinue("run")

\* session->start(sessionInput), under the write lock.
startSession ==
    /\ UNCHANGED fnVars
    /\ UNCHANGED execVars
    /\ pc = "run"
    /\ IF session # "open"
       THEN startError(Fault("closed", TRUE))
       ELSE \/ startError(Fault("session", TRUE))
            \/ startContinue("finish")

\* The result is taken from the session outputs, stored and returned.
startFinish ==
    /\ UNCHANGED fnVars
    /\ UNCHANGED execVars
    /\ pc = "finish"
    /\ \/ \E f \in OutputFaults(kind) : startError(f)
       \/ \E out \in SessionOutputs(kind, startInput) :
             /\ implResult' = [id |-> calls, out |-> out]
             /\ state' = "Idle"
             /\ returnValue("start", implResult')
             /\ UNCHANGED <<kind, implDriver, encoderSession, session>>
             /\ UNCHANGED <<startInput, stopRet, calls, stops, stopped>>

\* result()
result == implResult

(***************************************************************************)
(* stop(), called from another thread.  cancel is what session->stop()     *)
(* answers.  Acoustic and Vocoder call impl.session->isOpen() without a    *)
(* null check: on a null handle the behaviour is undefined (ub is the      *)
(* outcome).                                                               *)
(***************************************************************************)
stopTwoSession(cancel) ==
    /\ state' = "Terminated"
    /\ stopRet' = IF encoderSession = "null" /\ session = "null"
                  THEN TRUE ELSE cancel
    /\ UNCHANGED pc

stopOneSession(cancel, ub) ==
    CASE session = "null" ->
           /\ pc' = IF ub = "crash" THEN "crashed" ELSE pc
           /\ state' = IF ub = "true" THEN "Terminated" ELSE state
           /\ stopRet' = (ub = "true")
      [] session = "closed" ->
           /\ stopRet' = FALSE
           /\ UNCHANGED <<state, pc>>
      [] OTHER ->
           /\ stopRet' = cancel
           /\ state' = IF cancel THEN "Terminated" ELSE state
           /\ UNCHANGED pc

stop ==
    /\ kind # "None"
    /\ pc # "crashed"
    /\ stops' = stops + 1
    /\ \E cancel \in BOOLEAN :
          IF TwoSession(kind)
          THEN stopTwoSession(cancel)
          ELSE \E ub \in {"crash", "false", "true"} : stopOneSession(cancel, ub)
    /\ stopped' = (stopped \/ pc # "idle")
    /\ UNCHANGED <<kind, implDriver, encoderSession, session, implResult>>
    /\ UNCHANGED <<startInput, ret, calls>>

(***************************************************************************)
(* The command line driver: main() and exec().                             *)
(***************************************************************************)
\* Faulty variant of StageOrder: the pitch block placed before the duration
\* block.
StageOrderPitchFirst == <<"Pitch", "Duration", "Variance", "Acoustic", "Vocoder">>

\* The order of the five stage blocks of exec().
StageOrder == <<"Duration", "Pitch", "Variance", "Acoustic", "Vocoder">>

NoWav == [written |-> FALSE]
NoError == [what |-> "none", stage |-> "None", fields |-> <<>>]

\* exec's locals before they are set, and after they are destroyed
LocalsUnset ==
    /\ stageIdx = 0
    /\ acousticConfig = NoConfig
    /\ vocoderConfig = NoConfig
    /\ schema = <<>>
    /\ words = <<>>
    /\ parameters = <<>>
    /\ mel = "none"
    /\ f0 = "none"
    /\ audioData = "none"

\* no stand-alone computation is in use
FnOff ==
    /\ fpc = "off"
    /\ fin = <<>>
    /\ fout = <<>>

ExecOff ==
    /\ epc = "off"
    /\ LocalsUnset
    /\ wav = NoWav
    /\ exitCode = "none"
    /\ errorMsg = NoError
    /\ events = {}
    /\ snapshot = <<<<>>, <<>>>>

\* Faulty variant of execThrow: the score context is discarded on failure.
execThrowDiscardsContext(what, k, fields) ==
    /\ epc' = "thrown"
    /\ errorMsg' = [what |-> what, stage |-> k, fields |-> fields]
    /\ words' = <<>>
    /\ parameters' = <<>>

\* throw std::runtime_error(...): nothing is rolled back
execThrow(what, k, fields) ==
    /\ epc' = "thrown"
    /\ errorMsg' = [what |-> what, stage |-> k, fields |-> fields]
    /\ UNCHANGED <<words, parameters>>

\* the stage object and its caller's bookkeeping go away with the block
DestroyInstance ==
    /\ kind' = "None"
    /\ state' = InitialState
    /\ implDriver' = FALSE
    /\ encoderSession' = "null"
    /\ session' = "null"
    /\ implResult' = NoResult
    /\ pc' = "idle"
    /\ startInput' = NoInput
    /\ ret' = NoRet
    /\ calls' = 0
    /\ UNCHANGED <<stopRet, stops, stopped>>

DestroyLocals ==
    /\ stageIdx' = 0
    /\ acousticConfig' = NoConfig
    /\ vocoderConfig' = NoConfig
    /\ schema' = <<>>
    /\ words' = <<>>
    /\ parameters' = <<>>
    /\ mel' = "none"
    /\ f0' = "none"
    /\ audioData' = "none"

\* InputObject::load
ExecLoadInput ==
    /\ UNCHANGED fnVars
    /\ epc = "load"
    /\ \/ /\ execThrow("input", "None", <<>>)
          /\ UNCHANGED snapshot
       \/ \E ws \in InputWords : \E ps \in InputParameterLists :
             /\ words' = ws
             /\ parameters' = ps
             /\ snapshot' = <<ws, ps>>
             /\ epc' = "setup"
             /\ UNCHANGED errorMsg
    /\ UNCHANGED <<stageVars, callVars>>
    /\ UNCHANGED <<stageIdx, acousticConfig, vocoderConfig, schema, mel, f0,
                   audioData, wav, exitCode, events>>

\* initializeSU, su.open, the singer lookup and the five imports
ExecSetup ==
    /\ UNCHANGED fnVars
    /\ epc = "setup"
    /\ \/ \E why \in {"driver", "package", "singer", "inference"} :
             execThrow(why, "None", <<>>)
       \/ /\ epc' = "check"
          /\ UNCHANGED <<errorMsg, words, parameters>>
    /\ UNCHANGED <<stageVars, callVars>>
    /\ UNCHANGED <<stageIdx, acousticConfig, vocoderConfig, schema, mel, f0,
                   audioData, wav, exitCode, events, snapshot>>

\* Faulty variant of unmatchedFields: the last comparison (melScale) is
\* missing.
unmatchedFieldsWithoutMelScale(ac, vo) ==
    SelectSeq(SubSeq(Fields, 1, Len(Fields) - 1), LAMBDA f : ac[f] # vo[f])

\* the chain of nine comparisons that fills unmatchedFields
unmatchedFields(ac, vo) == SelectSeq(Fields, LAMBDA f : ac[f] # vo[f])

ExecCheckConfig ==
    /\ UNCHANGED fnVars
    /\ epc = "check"
    /\ \E ac \in AcousticConfigs : \E vo \in VocoderConfigs :
          /\ acousticConfig' = ac
          /\ vocoderConfig' = vo
          /\ IF unmatchedFields(ac, vo) # <<>>
             THEN /\ execThrow("config_mismatch", "None", unmatchedFields(ac, vo))
                  /\ UNCHANGED stageIdx
             ELSE /\ epc' = "create"
                  /\ stageIdx' = 1
                  /\ UNCHANGED <<errorMsg, words, parameters>>
    /\ UNCHANGED <<stageVars, callVars>>
    /\ UNCHANGED <<schema, mel, f0, audioData, wav, exitCode, events, snapshot>>

\* importX.inference->createInference(...); the variance block reads the
\* schema first
ExecCreate ==
    /\ UNCHANGED fnVars
    /\ epc = "create"
    /\ LET k == StageOrder[stageIdx] IN
          /\ events' = events \cup {<<k, "create">>}
          /\ IF k = "Variance" THEN schema' \in Schemas ELSE UNCHANGED schema
          /\ \/ /\ execThrow("create", k, <<>>)
                /\ UNCHANGED <<stageVars, callVars>>
             \/ /\ NewInstance(k)
                /\ epc' = "initialize"
                /\ calls' = 0
                /\ UNCHANGED <<pc, startInput, ret, stopRet, stops, stopped>>
                /\ UNCHANGED <<errorMsg, words, parameters>>
    /\ UNCHANGED <<stageIdx, acousticConfig, vocoderConfig, mel, f0, audioData,
                   wav, exitCode, snapshot>>

\* inference->initialize(NO<XInitArgs>::create())
ExecInitialize ==
    /\ UNCHANGED fnVars
    /\ epc = "initialize"
    /\ \E o \in InitOutcomes(kind) : initialize("ok", o)
    /\ events' = events \cup {<<kind, "initialize">>}
    /\ IF ret'.ok
       THEN epc' = "start" /\ UNCHANGED <<errorMsg, words, parameters>>
       ELSE execThrow("initialize", kind, <<>>)
    /\ UNCHANGED <<stageIdx, acousticConfig, vocoderConfig, schema, mel, f0,
                   audioData, wav, exitCode, snapshot>>

\* The parameters copied into the pitch input.
pitchInputParameters(params) ==
    SelectSeq(params, LAMBDA q : q.tag \in {"pitch", "expr"})

\* The parameters copied into the variance input.
RECURSIVE schemaMatches(_, _)
schemaMatches(q, sch) ==
    IF sch = <<>> THEN <<>>
    ELSE (IF Head(sch) = q.tag THEN <<Param(Head(sch), q.values, q.interval, q.retake)>>
          ELSE <<>>) \o schemaMatches(q, Tail(sch))

RECURSIVE varianceInputParameters(_, _)
varianceInputParameters(params, sch) ==
    IF params = <<>> THEN <<>>
    ELSE (IF Head(params).tag = "pitch" THEN <<Head(params)>>
          ELSE schemaMatches(Head(params), sch))
         \o varianceInputParameters(Tail(params), sch)

\* The input object exec builds for the stage.
buildInput(k) ==
    CASE k = "Duration" -> [type |-> "duration", words |-> words]
      [] k = "Pitch" -> [type |-> "pitch", words |-> words,
                         parameters |-> pitchInputParameters(parameters)]
      [] k = "Variance" -> [type |-> "variance", words |-> words,
                            parameters |-> varianceInputParameters(parameters, schema)]
      [] k = "Acoustic" -> [type |-> "acoustic", words |-> words,
                            parameters |-> parameters]
      [] OTHER -> [type |-> "vocoder", mel |-> mel, f0 |-> f0]

\* inference->start(input)
ExecStart ==
    /\ UNCHANGED fnVars
    /\ epc = "start"
    /\ start(buildInput(kind))
    /\ events' = events \cup {<<kind, "start">>}
    /\ epc' = "started"
    /\ UNCHANGED <<stageIdx, acousticConfig, vocoderConfig, schema, words,
                   parameters, mel, f0, audioData, wav, exitCode, errorMsg,
                   snapshot>>

\* what exec does with the value of start(): throw on an error, throw when
\* the state is Failed, else go on to the write-back
ExecStartReturned ==
    /\ UNCHANGED fnVars
    /\ epc = "started"
    /\ pc = "idle"
    /\ IF ~ret.ok
       THEN /\ execThrow("start", kind, <<>>)
            /\ events' = events \cup {<<kind, "returned">>}
       ELSE IF state = "Failed"
       THEN /\ execThrow("run", kind, <<>>)
            /\ events' = events \cup {<<kind, "returned">>}
       ELSE /\ epc' = "writeback"
            /\ events' = events \cup {<<kind, "returned">>, <<kind, "start_ok">>}
            /\ UNCHANGED <<errorMsg, words, parameters>>
    /\ UNCHANGED <<stageVars, callVars>>
    /\ UNCHANGED <<stageIdx, acousticConfig, vocoderConfig, schema, mel, f0,
                   audioData, wav, exitCode, snapshot>>

\* updatePhonemeStarts: i is the index into phonemeDurations (from 0); the
\* lambda returns as soon as i reaches phonemeDurations.size()
RECURSIVE updatePhones(_, _, _, _)
updatePhones(phones, durs, i, timeCursor) ==
    IF phones = <<>> THEN [phones |-> <<>>, i |-> i, returned |-> FALSE]
    ELSE IF i >= Len(durs) THEN [phones |-> phones, i |-> i, returned |-> TRUE]
    ELSE LET rest == updatePhones(Tail(phones), durs, i + 1, RatAdd(timeCursor, durs[i + 1]))
         IN  [phones |-> <<[Head(phones) EXCEPT !.start = timeCursor]>> \o rest.phones,
              i |-> rest.i, returned |-> rest.returned]

RECURSIVE updateWords(_, _, _)
updateWords(ws, durs, i) ==
    IF ws = <<>> THEN <<>>
    ELSE LET r == updatePhones(Head(ws).phones, durs, i, RatZero)
         IN  <<[Head(ws) EXCEPT !.phones = r.phones]>>
                \o (IF r.returned THEN Tail(ws) ELSE updateWords(Tail(ws), durs, r.i))

updatePhonemeStarts(ws, durs) == updateWords(ws, durs, 0)

\* Faulty variant of pitchWriteBack: only the first Pitch entry is updated.
pitchWriteBackFirstOnly(params, res, interval) ==
    IF \E i \in 1..Len(params) : params[i].tag = "pitch"
    THEN LET first == CHOOSE i \in 1..Len(params) :
                         /\ params[i].tag = "pitch"
                         /\ \A j \in 1..(i - 1) : params[j].tag # "pitch"
         IN  [params EXCEPT ![first].interval = interval, ![first].values = res]
    ELSE Append(params, Param("pitch", res, interval, "none"))

\* The pitch write-back: every Pitch entry gets the result, and one is
\* appended when there is none.
pitchWriteBack(params, res, interval) ==
    IF \E i \in 1..Len(params) : params[i].tag = "pitch"
    THEN [i \in 1..Len(params) |->
            IF params[i].tag = "pitch"
            THEN [params[i] EXCEPT !.interval = interval, !.values = res]
            ELSE params[i]]
    ELSE Append(params, Param("pitch", res, interval, "none"))

\* The first entry of preds with the tag t (0: none).
firstMatch(preds, t) ==
    LET S == {j \in 1..Len(preds) : preds[j].tag = t}
    IN  IF S = {} THEN 0 ELSE CHOOSE j \in S : \A k \in S : j <= k

\* First loop of the variance write-back: for i < nParams, parameters[i] is
\* matched against the predictions.  parameters[i] is read without a bounds
\* check: past the end of the list the tag read is garbage[i], and the
\* assignment goes to memory outside the list.  The values of a matched
\* prediction are moved out of it.
RECURSIVE varianceLoop1(_, _, _, _)
varianceLoop1(i, n, wb, garbage) ==
    IF i > n THEN wb
    ELSE LET inside == i <= Len(wb.params)
             t == IF inside THEN wb.params[i].tag ELSE garbage[i]
             j == firstMatch(wb.preds, t)
         IN  IF j = 0 THEN varianceLoop1(i + 1, n, wb, garbage)
             ELSE varianceLoop1(i + 1, n,
                    [params |-> IF inside
                                THEN [wb.params EXCEPT ![i] =
                                        Param(@.tag, wb.preds[j].values,
                                              wb.preds[j].interval, "none")]
                                ELSE wb.params,
                     preds |-> [wb.preds EXCEPT ![j].values = <<>>],
                     sat |-> [wb.sat EXCEPT ![i] = TRUE]],
                    garbage)

\* Second loop: for every i not satisfied, the prediction whose tag is
\* schema->predictions[i] is appended.
RECURSIVE varianceLoop2(_, _, _, _)
varianceLoop2(i, n, wb, sch) ==
    IF i > n THEN wb.params
    ELSE IF wb.sat[i] THEN varianceLoop2(i + 1, n, wb, sch)
    ELSE LET j == firstMatch(wb.preds, sch[i])
         IN  IF j = 0 THEN varianceLoop2(i + 1, n, wb, sch)
             ELSE varianceLoop2(i + 1, n,
                    [wb EXCEPT !.params = Append(@, wb.preds[j]),
                               !.preds[j].values = <<>>],
                    sch)

varianceWriteBack(params, sch, preds, garbage) ==
    varianceLoop2(1, Len(sch),
        varianceLoop1(1, Len(sch),
            [params |-> params, preds |-> preds,
             sat |-> [i \in 1..Len(sch) |-> FALSE]],
            garbage),
        sch)

\* What a read past the end of the parameter list can find.
GarbageTags == VarianceTags \cup {"garbage"}

ExecWriteBack ==
    /\ UNCHANGED fnVars
    /\ epc = "writeback"
    /\ LET out == ret.val.out
           k == kind
       IN  /\ CASE k = "Duration" ->
                    /\ words' = updatePhonemeStarts(words, out.durations)
                    /\ UNCHANGED <<parameters, mel, f0, audioData>>
                    /\ epc' = "create"
               [] k = "Pitch" ->
                    /\ parameters' = pitchWriteBack(parameters, out.pitch, out.interval)
                    /\ UNCHANGED <<words, mel, f0, audioData>>
                    /\ epc' = "create"
               [] k = "Variance" ->
                    /\ UNCHANGED <<words, mel, f0, audioData>>
                    /\ IF Len(parameters) < Len(schema)
                       THEN \/ /\ epc' = "crashed"
                               /\ UNCHANGED parameters
                            \/ /\ epc' = "create"
                               /\ \E g \in [1..Len(schema) -> GarbageTags] :
                                     parameters' = varianceWriteBack(
                                         parameters, schema, out.predictions, g)
                       ELSE /\ epc' = "create"
                            /\ parameters' = varianceWriteBack(
                                   parameters, schema, out.predictions,
                                   [i \in 1..Len(schema) |-> "garbage"])
               [] k = "Acoustic" ->
                    /\ mel' = out.mel
                    /\ f0' = out.f0
                    /\ UNCHANGED <<words, parameters, audioData>>
                    /\ epc' = "create"
               [] OTHER ->
                    /\ audioData' = out.audioData
                    /\ UNCHANGED <<words, parameters, mel, f0>>
                    /\ epc' = "wav"
           /\ events' = events \cup {<<k, "writeback">>}
    /\ snapshot' = <<words', parameters'>>
    /\ stageIdx' = stageIdx + 1
    /\ DestroyInstance
    /\ UNCHANGED <<acousticConfig, vocoderConfig, schema, wav, exitCode, errorMsg>>

\* "Process audio data" and the return of exec and of main.
ExecWriteWav ==
    /\ UNCHANGED fnVars
    /\ epc = "wav"
    /\ \/ \* init_file_write failed: return -1
          /\ exitCode' = -1
          /\ UNCHANGED wav
       \/ \E complete \in BOOLEAN :
             /\ wav' = [written |-> TRUE, container |-> "RIFF",
                        format |-> "IEEE_FLOAT", channels |-> 1,
                        sampleRate |-> 44100, bitsPerSample |-> 32,
                        complete |-> complete]
             /\ exitCode' = 0
    /\ epc' = "exit"
    /\ DestroyLocals
    /\ UNCHANGED <<stageVars, callVars>>
    /\ UNCHANGED <<errorMsg, events, snapshot>>

\* catch (const std::exception &e) in main
MainCatch ==
    /\ UNCHANGED fnVars
    /\ epc = "thrown"
    /\ exitCode' = -1
    /\ epc' = "exit"
    /\ DestroyLocals
    /\ DestroyInstance
    /\ UNCHANGED <<wav, errorMsg, events, snapshot>>

Init ==
    /\ FnOff
    /\ epc = "load"
    /\ LocalsUnset
    /\ wav = NoWav
    /\ exitCode = "none"
    /\ errorMsg = NoError
    /\ events = {}
    /\ snapshot = <<<<>>, <<>>>>
    /\ kind = "None"
    /\ state = InitialState
    /\ implDriver = FALSE
    /\ encoderSession = "null"
    /\ session = "null"
    /\ implResult = NoResult
    /\ pc = "idle"
    /\ startInput = NoInput
    /\ ret = NoRet
    /\ stopRet = FALSE
    /\ calls = 0
    /\ stops = 0
    /\ stopped = FALSE

Next ==
    \/ ExecLoadInput
    \/ ExecSetup
    \/ ExecCheckConfig
    \/ ExecCreate
    \/ ExecInitialize
    \/ ExecStart
    \/ startPreprocess
    \/ startEncoder
    \/ startPreprocess2
    \/ startSession
    \/ startFinish
    \/ ExecStartReturned
    \/ ExecWriteBack
    \/ ExecWriteWav
    \/ MainCatch

Spec == Init /\ [][Next]_vars

(***************************************************************************)
(* SpecStage: a client of one stage instance.                              *)
(***************************************************************************)
InitStage ==
    /\ FnOff
    /\ ExecOff
    /\ kind \in Kinds
    /\ state = InitialState
    /\ implDriver = FALSE
    /\ encoderSession = "null"
    /\ session = "null"
    /\ implResult = NoResult
    /\ pc = "idle"
    /\ startInput = NoInput
    /\ ret = NoRet
    /\ stopRet = FALSE
    /\ calls = 0
    /\ stops = 0
    /\ stopped = FALSE

ClientInitialize ==
    /\ UNCHANGED fnVars
    /\ epc = "off" /\ UNCHANGED execVars
    /\ calls < MaxCalls
    /\ \E a \in InitArgs : \E o \in InitOutcomes(kind) : initialize(a, o)

ClientStart ==
    /\ UNCHANGED fnVars
    /\ epc = "off" /\ UNCHANGED execVars
    /\ calls < MaxCalls
    /\ start([type |-> "opaque"])

ClientStop ==
    /\ UNCHANGED fnVars
    /\ epc = "off" /\ UNCHANGED execVars
    /\ stops < MaxStops
    /\ stop

NextStage ==
    \/ ClientInitialize
    \/ ClientStart
    \/ startPreprocess
    \/ startEncoder
    \/ startPreprocess2
    \/ startSession
    \/ startFinish
    \/ ClientStop

SpecStage == InitStage /\ [][NextStage]_vars

(***************************************************************************)
(* SpecDuration: the end of one DurationInference::start (the predictor    *)
(* has returned the ph_dur_pred view fin.view for the words fin.words),    *)
(* followed by the driver's write-back of the result into the words.       *)
(***************************************************************************)
StageOff ==
    /\ kind = "None"
    /\ state = InitialState
    /\ implDriver = FALSE
    /\ encoderSession = "null"
    /\ session = "null"
    /\ implResult = NoResult
    /\ pc = "idle"
    /\ startInput = NoInput
    /\ ret = NoRet
    /\ stopRet = FALSE
    /\ calls = 0
    /\ stops = 0
    /\ stopped = FALSE

\* getWordDuration of the words of a duration input
WordDurations == {1, 2}

\* one or two words, each with its number of phones and its duration
DurationWords ==
    LET W == {WordOf(n, w) : n \in 0..MaxPhones, w \in WordDurations}
    IN  {<<a>> : a \in W} \cup {<<a, WordOf(n, 1)>> : a \in W, n \in 0..MaxPhones}

\* what the predictor may answer: any float, and any number of them
PredictedValues == {RatOf(-1), RatOf(1), RatOf(2), NaN, Inf}
PredictedCounts(ws) == 0..(getPhoneCount(ws) + 1)

InitDuration ==
    /\ ExecOff
    /\ fpc = "duration_finish"
    /\ \E ws \in DurationWords :
          \E n \in PredictedCounts(ws) :
             \E v \in [1..n -> PredictedValues] :
                fin = [words |-> ws, view |-> v]
    /\ fout = <<>>
    /\ kind = "Duration"
    /\ state = "Running"
    /\ implDriver = TRUE
    /\ encoderSession = "open"
    /\ session = "open"
    /\ implResult = NoResult
    /\ pc = "finish"
    /\ startInput = [type |-> "duration", words |-> fin.words]
    /\ ret = NoRet
    /\ stopRet = FALSE
    /\ calls = 1
    /\ stops = 0
    /\ stopped = FALSE

\* DurationInference::start from "Get session results" to its return
DurationFinish ==
    /\ fpc = "duration_finish"
    /\ LET r == durationFinish(fin.words, fin.view)
       IN  /\ fout' = r
           /\ IF r.ok
              THEN /\ implResult' = [id |-> calls,
                                     out |-> [type |-> "duration",
                                              durations |-> r.durations]]
                   /\ state' = "Idle"
                   /\ returnValue("start", implResult')
                   /\ fpc' = "duration_writeback"
              ELSE /\ returnError("start", r.cls, r.setsFailed)
                   /\ UNCHANGED implResult
                   /\ fpc' = "failed"
    /\ UNCHANGED <<kind, implDriver, encoderSession, session>>
    /\ UNCHANGED <<startInput, stopRet, calls, stops, stopped>>
    /\ UNCHANGED <<execVars, fin>>

\* exec: updatePhonemeStarts(input.input->words, result->durations)
DurationWriteBack ==
    /\ fpc = "duration_writeback"
    /\ fout' = [ok |-> TRUE, durations |-> fout.durations,
                words |-> updatePhonemeStarts(fin.words, ret.val.out.durations)]
    /\ fpc' = "done"
    /\ UNCHANGED <<stageVars, callVars, execVars, fin>>

NextDuration ==
    \/ DurationFinish
    \/ DurationWriteBack

SpecDuration == InitDuration /\ [][NextDuration]_vars

(***************************************************************************)
(* SpecAcoustic: AcousticInference::start from its parameter loop to its   *)
(* return (tokens, languages, durations, steps and depth are in place, the *)
(* configuration uses no speaker embedding, tensors can be allocated),     *)
(* followed by the driver's hand-off of mel and f0 to the vocoder and the  *)
(* vocoder's session input.                                                *)
(***************************************************************************)
\* targetLength as preprocessPhonemeDurations reports it for a score that
\* has frames
TargetLengths == {1, 2}

\* the tags of the parameter loop's chain, and the session input each fills
AcousticParamTags ==
    {"gender", "velocity", "energy", "breathiness", "voicing", "tension",
     "mouth_opening"}
AcousticF0Tags == {"f0", "pitch", "tone_shift"}
AcousticInputNames == AcousticParamTags \cup {"f0"}

\* a tensor is its shape and its elements in row-major order
Tensor(shape, data) == [shape |-> shape, data |-> data]
NoTensor == Tensor(<<>>, <<>>)
createFilled(shape1, v) == Tensor(<<1, shape1>>, [i \in 1..shape1 |-> v])

\* frame i of what resample made of the idx-th entry of the input
Sample(idx, i) == 10 * idx + i

\* inferutil::resample(param.values, param.interval, frameWidth,
\* targetLength, alignLast): empty for empty values; otherwise as many
\* frames as the entry's field frames says
resample(param, idx) ==
    IF param.values = <<>>
    THEN <<>>
    ELSE [i \in 1..param.frames |-> Sample(idx, i)]

\* TensorHelper<float>::createFor1DArray(targetLength), or Tensor::create of
\* shape {1, targetLength}, filled with the resampled items (as many as
\* targetLength, the size check having passed)
createFor1DArray(targetLength, items) ==
    Tensor(<<1, targetLength>>,
           [i \in 1..targetLength |-> IF i <= Len(items) THEN items[i] ELSE 0])

resampleFailedIfEmpty(resampled, targetLength) == resampled = <<>>

\* "if (resampled.size() != targetLength)"
resampleFailed(resampled, targetLength) == Len(resampled) # targetLength

\* the locals of start() when the parameter loop begins
acousticLocals(config) ==
    [inputs |-> [n \in AcousticInputNames |-> NoTensor],
     satisfy |-> [t \in AcousticParamTags |-> t \notin config.parameters],
     f0TensorForVocoder |-> NoTensor,
     pF0Param |-> 0, pPitchParam |-> 0, pToneShiftParam |-> 0,
     failed |-> FALSE, cls |-> "none", msg |-> "none"]

acousticFail(st, cls, msg) ==
    [st EXCEPT !.failed = TRUE, !.cls = cls, !.msg = msg]

\* "for (const auto &param : acousticInput->parameters)"
RECURSIVE acousticParameterLoop(_, _, _, _)
acousticParameterLoop(params, i, targetLength, st) ==
    IF i > Len(params)
    THEN st
    ELSE LET param == params[i]
             resampled == resample(param, i)
             continue(s) == acousticParameterLoop(params, i + 1, targetLength, s)
         IN  IF param.tag = "f0"
             THEN continue([st EXCEPT !.pF0Param = i])
             ELSE IF param.tag = "pitch"
             THEN continue([st EXCEPT !.pPitchParam = i])
             ELSE IF param.tag = "tone_shift"
             THEN continue([st EXCEPT !.pToneShiftParam = i])
             ELSE IF resampled = <<>> /\ param.tag = "gender"
             THEN continue([st EXCEPT
                      !.inputs["gender"] = createFilled(targetLength, 0),
                      !.satisfy["gender"] = TRUE])
             ELSE IF resampled = <<>> /\ param.tag = "velocity"
             THEN continue([st EXCEPT
                      !.inputs["velocity"] = createFilled(targetLength, 1),
                      !.satisfy["velocity"] = TRUE])
             ELSE IF resampleFailed(resampled, targetLength)
             THEN acousticFail(st, "SessionError", "resample failed")
             ELSE IF ~st.satisfy[param.tag]
             THEN continue([st EXCEPT
                      !.inputs[param.tag] = createFor1DArray(targetLength, resampled),
                      !.satisfy[param.tag] = TRUE])
             ELSE continue(st)

\* the lambda processF0Param(param, convertToF0); an f0 frame is the sample,
\* the tone shift applied to it (0: none) and whether it was converted from
\* midi to Hz
processF0Param(params, idx, convertToF0, targetLength, st) ==
    LET samples == resample(params[idx], idx)
        shifted == /\ st.pToneShiftParam # 0
                   /\ params[st.pToneShiftParam].values # <<>>
        toneShiftSamples == IF shifted
                            THEN resample(params[st.pToneShiftParam], st.pToneShiftParam)
                            ELSE <<>>
        f0Tensor == Tensor(<<1, targetLength>>,
                           [i \in 1..targetLength |->
                               [sample |-> IF i <= Len(samples) THEN samples[i] ELSE 0,
                                shift |-> IF shifted /\ i <= Len(toneShiftSamples)
                                          THEN toneShiftSamples[i] ELSE 0,
                                midiToHz |-> convertToF0]])
    IN  IF resampleFailed(samples, targetLength)
        THEN acousticFail(st, "SessionError", "resample failed")
        ELSE IF shifted /\ resampleFailed(toneShiftSamples, targetLength)
        THEN acousticFail(st, "SessionError", "resample failed")
        ELSE [st EXCEPT !.f0TensorForVocoder = f0Tensor,
                        !.inputs["f0"] = f0Tensor]

\* the four parameters whose absence is an error
RequiredTags == {"energy", "breathiness", "voicing", "tension"}

requirementCheckWithoutTension(st) ==
    IF \E t \in RequiredTags \ {"tension"} : ~st.satisfy[t]
    THEN acousticFail(st, "SessionError", "some required parameters missing")
    ELSE st

\* "Some parameter requirements are not satisfied"
requirementCheck(st) ==
    IF \E t \in RequiredTags : ~st.satisfy[t]
    THEN acousticFail(st, "SessionError", "some required parameters missing")
    ELSE st

\* start() from the requirement flags to the requirement check
acousticPreprocess(config, params, targetLength) ==
    LET st1 == acousticParameterLoop(params, 1, targetLength, acousticLocals(config))
        st2 == IF st1.failed
               THEN st1
               ELSE IF st1.pF0Param # 0
               THEN processF0Param(params, st1.pF0Param, FALSE, targetLength, st1)
               ELSE IF st1.pPitchParam # 0
               THEN processF0Param(params, st1.pPitchParam, TRUE, targetLength, st1)
               ELSE acousticFail(st1, "SessionError", "parameter f0 or pitch missing")
    IN  IF st2.failed THEN st2 ELSE requirementCheck(st2)

\* the entries an acoustic input may hold for a score of targetLength frames:
\* without values, or with values that resample to targetLength frames or
\* to one frame less
AcousticEntries(targetLength) ==
    LET tags == AcousticParamTags \cup AcousticF0Tags
    IN  {[tag |-> t, values |-> <<>>, frames |-> 0] : t \in tags}
        \cup {[tag |-> t, values |-> <<"v">>, frames |-> l] :
                 t \in tags, l \in {targetLength - 1, targetLength}}

\* config->parameters: nothing, one tag, or all of them
DeclaredParameters ==
    {{}} \cup {{t} : t \in AcousticParamTags} \cup {AcousticParamTags}

\* what the acoustic session answers for output "mel"
melOutput(targetLength) == Tensor(<<1, targetLength>>, [i \in 1..targetLength |-> 100 + i])

InitAcoustic ==
    /\ ExecOff
    /\ fpc = "acoustic_parameters"
    /\ \E T \in TargetLengths :
          \E d \in DeclaredParameters :
             \E n \in 0..MaxParams :
                \E ps \in [1..n -> AcousticEntries(T)] :
                   fin = [config |-> [parameters |-> d], parameters |-> ps,
                          targetLength |-> T]
    /\ fout = <<>>
    /\ kind = "Acoustic"
    /\ state = "Running"
    /\ implDriver = TRUE
    /\ encoderSession = "null"
    /\ session = "open"
    /\ implResult = NoResult
    /\ pc = "pre"
    /\ startInput = [type |-> "acoustic", words |-> <<>>, parameters |-> fin.parameters]
    /\ ret = NoRet
    /\ stopRet = FALSE
    /\ calls = 1
    /\ stops = 0
    /\ stopped = FALSE

\* the parameter loop, the f0 and the requirement check
AcousticParameters ==
    /\ fpc = "acoustic_parameters"
    /\ LET st == acousticPreprocess(fin.config, fin.parameters, fin.targetLength)
       IN  /\ fout' = [st |-> st, called |-> FALSE, sessionInputs |-> st.inputs,
                       vocoderInputs |-> [mel |-> NoTensor, f0 |-> NoTensor]]
           /\ IF st.failed
              THEN /\ returnError("start", st.cls, TRUE)
                   /\ fpc' = "acoustic_failed"
              ELSE /\ pc' = "run"
                   /\ fpc' = "acoustic_session"
                   /\ UNCHANGED <<state, ret>>
    /\ UNCHANGED <<kind, implDriver, encoderSession, session, implResult>>
    /\ UNCHANGED <<startInput, stopRet, calls, stops, stopped>>
    /\ UNCHANGED <<execVars, fin>>

acousticResultOfRawF0(sessionMel, st) ==
    [type |-> "acoustic", mel |-> sessionMel,
     f0 |-> Tensor(st.f0TensorForVocoder.shape,
                   [i \in 1..Len(st.f0TensorForVocoder.data) |->
                       [sample |-> st.f0TensorForVocoder.data[i].sample,
                        shift |-> 0, midiToHz |-> FALSE]])]

\* "acousticResult->mel = it_mel->second; acousticResult->f0 =
\* f0TensorForVocoder;"
acousticResult(sessionMel, st) ==
    [type |-> "acoustic", mel |-> sessionMel, f0 |-> st.f0TensorForVocoder]

\* impl.session->start(sessionInput) under the write lock and the result
AcousticSession ==
    /\ fpc = "acoustic_session"
    /\ IF session # "open"
       THEN /\ returnError("start", "SessionError", TRUE)
            /\ fpc' = "acoustic_failed"
            /\ UNCHANGED <<implResult, fout>>
       ELSE /\ fout' = [fout EXCEPT !.called = TRUE]
            /\ \/ /\ returnError("start", "SessionError", TRUE)
                  /\ fpc' = "acoustic_failed"
                  /\ UNCHANGED implResult
               \/ /\ implResult' = [id |-> calls,
                                    out |-> acousticResult(melOutput(fin.targetLength),
                                                           fout.st)]
                  /\ state' = "Idle"
                  /\ returnValue("start", implResult')
                  /\ fpc' = "acoustic_returned"
    /\ UNCHANGED <<kind, implDriver, encoderSession, session>>
    /\ UNCHANGED <<startInput, stopRet, calls, stops, stopped>>
    /\ UNCHANGED <<execVars, fin>>

\* exec: "mel = result->mel; f0 = result->f0;"
AcousticHandOff ==
    /\ fpc = "acoustic_returned"
    /\ mel' = ret.val.out.mel
    /\ f0' = ret.val.out.f0
    /\ fpc' = "vocoder_start"
    /\ UNCHANGED <<epc, stageIdx, acousticConfig, vocoderConfig, schema, words,
                   parameters, audioData, wav, exitCode, errorMsg, events, snapshot>>
    /\ UNCHANGED <<stageVars, callVars, fin, fout>>

\* VocoderInference::start: the session inputs made of the start input
vocoderSessionInputs(vocoderInput) ==
    [mel |-> vocoderInput.mel, f0 |-> vocoderInput.f0]

\* exec: "vocoderInput->mel = mel; vocoderInput->f0 = f0;" and the vocoder's
\* start() up to its session call
VocoderSessionInput ==
    /\ fpc = "vocoder_start"
    /\ fout' = [fout EXCEPT
                   !.vocoderInputs = vocoderSessionInputs([mel |-> mel, f0 |-> f0])]
    /\ fpc' = "vocoder_session"
    /\ UNCHANGED <<stageVars, callVars, execVars, fin>>

NextAcoustic ==
    \/ AcousticParameters
    \/ AcousticSession
    \/ AcousticHandOff
    \/ VocoderSessionInput

SpecAcoustic == InitAcoustic /\ [][NextAcoustic]_vars

(***************************************************************************)
(* Retake windows: seconds to frames.                                      *)
(***************************************************************************)
\* config->frameWidth, finite and positive
FrameWidth == Rat(1, 2)

\* std::llround of a finite double: to the nearest integer, halves away
\* from zero
llround(x) ==
    LET q == (2 * Abs(x.n) + x.d) \div (2 * x.d)
    IN  IF x.n < 0 THEN -q ELSE q

\* std::clamp<int64_t>(v, lo, hi)
clamp(v, lo, hi) == IF v < lo THEN lo ELSE IF hi < v THEN hi ELSE v

\* param.retake: std::optional of (start, end) in seconds
NoRetake == [has |-> FALSE, start |-> RatZero, end |-> RatZero]
Retake(from, to) == [has |-> TRUE, start |-> from, end |-> to]

\* the seconds a retake window may name: before the score, its begin, one
\* frame, and a frame and a half
RetakeTimes == {Rat(-1, 2), RatZero, Rat(1, 2), Rat(3, 4)}
Retakes == {NoRetake} \cup {Retake(a, b) : a \in RetakeTimes, b \in RetakeTimes}

\* std::fill / std::fill_n of the region's frames outside [s, e) with 0;
\* frame t counts from 0
retakeRegion(s, e, targetLength) ==
    IF s = e
    THEN [t \in 0..(targetLength - 1) |-> FALSE]
    ELSE IF s < e
    THEN [t \in 0..(targetLength - 1) |-> s <= t /\ t < e]
    ELSE [t \in 0..(targetLength - 1) |-> TRUE]

\* a mask indexed from 0 as the sequence of its bytes
Bytes(mask, n) == [i \in 1..n |-> mask[i - 1]]

(***************************************************************************)
(* SpecPitch: PitchInference::start from its parameter loop to the session *)
(* call (encoder run, notes and ph_dur are in place, the configuration     *)
(* uses no speaker embedding, tensors can be allocated).                   *)
(***************************************************************************)
\* "Retake" of a Pitch entry
pitchRetake(retake, targetLength) ==
    IF retake.has
    THEN LET retakeStartFrame == clamp(llround(RatDiv(retake.start, FrameWidth)),
                                       0, targetLength)
             retakeEndFrame == clamp(llround(RatDiv(retake.end, FrameWidth)),
                                     0, targetLength)
         IN  retakeRegion(retakeStartFrame, retakeEndFrame, targetLength)
    ELSE [t \in 0..(targetLength - 1) |-> TRUE]

\* sessionInput->inputs.emplace(name, tensor): the first one stays
emplace(inputs, name, tensor) ==
    IF inputs[name] = NoTensor THEN [inputs EXCEPT ![name] = tensor] ELSE inputs

pitchLocals(config) ==
    [inputs |-> [n \in {"pitch", "retake", "expr"} |-> NoTensor],
     satisfyPitch |-> FALSE,
     satisfyExpr |-> ~config.useExpressiveness,
     failed |-> FALSE, cls |-> "none", msg |-> "none"]

\* "for (const auto &param : pitchInput->parameters)"
RECURSIVE pitchParameterLoop(_, _, _, _)
pitchParameterLoop(params, i, targetLength, st) ==
    IF i > Len(params)
    THEN st
    ELSE LET param == params[i]
             isPitch == param.tag = "pitch"
             isExpr == param.tag = "expr"
             samples == resample(param, i)
             continue(s) == pitchParameterLoop(params, i + 1, targetLength, s)
         IN  IF ~isPitch /\ ~isExpr
             THEN continue(st)
             ELSE IF resampleFailed(samples, targetLength)
             THEN acousticFail(st, "SessionError", "resample failed")
             ELSE IF isPitch
             THEN continue([st EXCEPT
                      !.inputs = emplace(
                          emplace(st.inputs, "pitch",
                                  createFor1DArray(targetLength, samples)),
                          "retake",
                          Tensor(<<1, targetLength>>,
                                 Bytes(pitchRetake(param.retake, targetLength),
                                       targetLength))),
                      !.satisfyPitch = TRUE])
             ELSE IF ~st.satisfyExpr
             THEN continue([st EXCEPT
                      !.inputs = emplace(st.inputs, "expr",
                                         createFor1DArray(targetLength, samples)),
                      !.satisfyExpr = TRUE])
             ELSE continue(st)

\* "No pitch supplied" and "Model needs expr but no expr supplied"
pitchDefaults(targetLength, st) ==
    LET st1 == IF ~st.satisfyPitch
               THEN [st EXCEPT
                        !.inputs = emplace(
                            emplace(st.inputs, "pitch", createFilled(targetLength, 0)),
                            "retake",
                            Tensor(<<1, targetLength>>,
                                   [i \in 1..targetLength |-> TRUE])),
                        !.satisfyPitch = TRUE]
               ELSE st
    IN  IF ~st1.satisfyExpr
        THEN [st1 EXCEPT
                 !.inputs = emplace(st1.inputs, "expr", createFilled(targetLength, 1)),
                 !.satisfyExpr = TRUE]
        ELSE st1

pitchPreprocess(config, params, targetLength) ==
    LET st == pitchParameterLoop(params, 1, targetLength, pitchLocals(config))
    IN  IF st.failed THEN st ELSE pitchDefaults(targetLength, st)

\* the entries a pitch input may hold: any tag without values or with values
\* that resample one frame short; pitch with values and any retake; expr
\* with values
PitchEntries(targetLength) ==
    {[tag |-> t, values |-> <<>>, frames |-> 0, retake |-> NoRetake] :
        t \in {"pitch", "expr", "energy"}}
    \cup {[tag |-> t, values |-> <<"v">>, frames |-> targetLength - 1,
           retake |-> NoRetake] : t \in {"pitch", "expr"}}
    \cup {[tag |-> "pitch", values |-> <<"v">>, frames |-> targetLength,
           retake |-> r] : r \in Retakes}
    \cup {[tag |-> "expr", values |-> <<"v">>, frames |-> targetLength,
           retake |-> NoRetake]}

\* the stage instance in start(), before its parameter loop
StageRunning(k, inp) ==
    /\ kind = k
    /\ state = "Running"
    /\ implDriver = TRUE
    /\ encoderSession = IF TwoSession(k) THEN "open" ELSE "null"
    /\ session = "open"
    /\ implResult = NoResult
    /\ pc = "pre2"
    /\ startInput = inp
    /\ ret = NoRet
    /\ stopRet = FALSE
    /\ calls = 1
    /\ stops = 0
    /\ stopped = FALSE

InitPitch ==
    /\ ExecOff
    /\ fpc = "pitch_parameters"
    /\ \E T \in TargetLengths :
          \E e \in BOOLEAN :
             \E n \in 0..MaxParams :
                \E ps \in [1..n -> PitchEntries(T)] :
                   fin = [config |-> [useExpressiveness |-> e], parameters |-> ps,
                          targetLength |-> T]
    /\ fout = <<>>
    /\ StageRunning("Pitch", [type |-> "pitch", words |-> <<>>,
                              parameters |-> fin.parameters])

\* what a stage does with the outcome st of its parameter handling: an
\* error return, or on to the session call
parametersDone(st, session_pc, failed_pc) ==
    /\ fout' = [st |-> st, called |-> FALSE, sessionInputs |-> st.inputs,
                vocoderInputs |-> [mel |-> NoTensor, f0 |-> NoTensor]]
    /\ IF st.failed
       THEN /\ returnError("start", st.cls, TRUE)
            /\ fpc' = failed_pc
       ELSE /\ pc' = "run"
            /\ fpc' = session_pc
            /\ UNCHANGED <<state, ret>>
    /\ UNCHANGED <<kind, implDriver, encoderSession, session, implResult>>
    /\ UNCHANGED <<startInput, stopRet, calls, stops, stopped>>
    /\ UNCHANGED <<execVars, fin>>

\* the session call under the write lock, up to its answer
sessionCalled(returned_pc, failed_pc) ==
    /\ IF session # "open"
       THEN /\ returnError("start", "SessionError", TRUE)
            /\ fpc' = failed_pc
            /\ UNCHANGED fout
       ELSE /\ fout' = [fout EXCEPT !.called = TRUE]
            /\ \/ /\ returnError("start", "SessionError", TRUE)
                  /\ fpc' = failed_pc
               \/ /\ pc' = "finish"
                  /\ fpc' = returned_pc
                  /\ UNCHANGED <<state, ret>>
    /\ UNCHANGED <<kind, implDriver, encoderSession, session, implResult>>
    /\ UNCHANGED <<startInput, stopRet, calls, stops, stopped>>
    /\ UNCHANGED <<execVars, fin>>

PitchParameters ==
    /\ fpc = "pitch_parameters"
    /\ parametersDone(pitchPreprocess(fin.config, fin.parameters, fin.targetLength),
                      "pitch_session", "pitch_failed")

PitchSession ==
    /\ fpc = "pitch_session"
    /\ sessionCalled("pitch_returned", "pitch_failed")

NextPitch ==
    \/ PitchParameters
    \/ PitchSession

SpecPitch == InitPitch /\ [][NextPitch]_vars

(***************************************************************************)
(* SpecVariance: VarianceInference::start from "pitch and parameters" to   *)
(* the session call (encoder run and ph_dur are in place, the              *)
(* configuration uses no speaker embedding, tensors can be allocated).     *)
(***************************************************************************)
\* the frames [retakeStartFrame, retakeEndFrame) of a Variance entry's window
varianceRetakeFrames(retake, targetLength) ==
    [retakeStartFrame |->
         IF IsFinite(retake.start) /\ RatLeq(RatZero, retake.start)
         THEN clamp(llround(RatDiv(retake.start, FrameWidth)), 0, targetLength)
         ELSE 0,
     retakeEndFrame |->
         IF IsFinite(retake.end) /\ RatLeq(RatZero, retake.end)
         THEN clamp(llround(RatDiv(retake.end, FrameWidth)), 0, targetLength)
         ELSE targetLength]

\* the retake buffer (indexed from 0) after the fills of prediction j's
\* region [j * targetLength, (j + 1) * targetLength)
varianceRetake(buffer, j, retake, targetLength) ==
    IF retake.has
    THEN LET startIndex == j * targetLength
             endIndex == (j + 1) * targetLength
             fr == varianceRetakeFrames(retake, targetLength)
             region == retakeRegion(fr.retakeStartFrame, fr.retakeEndFrame,
                                    targetLength)
         IN  [x \in DOMAIN buffer |->
                 IF startIndex <= x /\ x < endIndex
                 THEN buffer[x] /\ region[x - startIndex]
                 ELSE buffer[x]]
    ELSE buffer

varianceLocals(schemaPredictions, targetLength) ==
    [inputs |-> [n \in {"pitch", "retake"} \cup VarianceTags |-> NoTensor],
     satisfyPitch |-> FALSE,
     satisfyParams |-> [j \in 1..Len(schemaPredictions) |-> FALSE],
     retake |-> [x \in 0..(targetLength * Len(schemaPredictions) - 1) |-> TRUE],
     failed |-> FALSE, cls |-> "none", msg |-> "none"]

\* "for (size_t j = 0; j < schema->predictions.size(); ++j)" for one entry;
\* j counts from 0
RECURSIVE variancePredictionLoop(_, _, _, _, _)
variancePredictionLoop(schemaPredictions, j, param, samples, st) ==
    IF j >= Len(schemaPredictions)
    THEN st
    ELSE IF param.tag # schemaPredictions[j + 1]
    THEN variancePredictionLoop(schemaPredictions, j + 1, param, samples, st)
    ELSE LET targetLength == Len(samples)
         IN  variancePredictionLoop(schemaPredictions, j + 1, param, samples,
                 [st EXCEPT
                     !.inputs = emplace(st.inputs, param.tag,
                                        createFor1DArray(targetLength, samples)),
                     !.retake = varianceRetake(st.retake, j, param.retake, targetLength),
                     !.satisfyParams[j + 1] = TRUE])

\* "for (const auto &param : varianceInput->parameters)"
RECURSIVE varianceParameterLoop(_, _, _, _, _)
varianceParameterLoop(schemaPredictions, params, i, targetLength, st) ==
    IF i > Len(params)
    THEN st
    ELSE LET param == params[i]
             isPitch == param.tag = "pitch"
             samples == resample(param, i)
             continue(s) == varianceParameterLoop(schemaPredictions, params, i + 1,
                                                  targetLength, s)
         IN  IF resampleFailed(samples, targetLength)
             THEN acousticFail(st, "SessionError", "resample failed")
             ELSE IF isPitch
             THEN continue([st EXCEPT
                      !.inputs = emplace(st.inputs, "pitch",
                                         createFor1DArray(targetLength, samples)),
                      !.satisfyPitch = TRUE])
             ELSE continue(variancePredictionLoop(schemaPredictions, 0, param,
                                                  samples, st))

\* "If some parameters are not supplied, fill them with 0"
RECURSIVE varianceDefaults(_, _, _, _)
varianceDefaults(schemaPredictions, j, targetLength, st) ==
    IF j > Len(schemaPredictions)
    THEN st
    ELSE varianceDefaults(schemaPredictions, j + 1, targetLength,
             IF st.satisfyParams[j]
             THEN st
             ELSE [st EXCEPT
                      !.inputs = emplace(st.inputs, schemaPredictions[j],
                                         createFilled(targetLength, 0))])

\* Tensor::createFromRawData(ITensor::Bool, {1, targetLength, nPredictions},
\* retake): the buffer's bytes in their order
retakeTensor(buffer, targetLength, nPredictions) ==
    Tensor(<<1, targetLength, nPredictions>>,
           Bytes(buffer, targetLength * nPredictions))

variancePreprocess(schemaPredictions, params, targetLength) ==
    IF schemaPredictions = <<>>
    THEN acousticFail(varianceLocals(schemaPredictions, targetLength),
                      "SessionError", "no parameters to predict")
    ELSE LET st1 == varianceParameterLoop(schemaPredictions, params, 1, targetLength,
                        varianceLocals(schemaPredictions, targetLength))
             st == [st1 EXCEPT
                       !.inputs = emplace(st1.inputs, "retake",
                                          retakeTensor(st1.retake, targetLength,
                                                       Len(schemaPredictions)))]
         IN  IF st1.failed
             THEN st1
             ELSE IF ~st.satisfyPitch
             THEN acousticFail(st, "SessionError", "missing pitch input")
             ELSE varianceDefaults(schemaPredictions, 1, targetLength, st)

\* the entries a variance input may hold: any tag without values or with
\* values that resample one frame short; pitch with values; a schema tag
\* with values and any retake
VarianceEntries(targetLength) ==
    {[tag |-> t, values |-> <<>>, frames |-> 0, retake |-> NoRetake] :
        t \in {"pitch"} \cup VarianceTags}
    \cup {[tag |-> t, values |-> <<"v">>, frames |-> targetLength - 1,
           retake |-> NoRetake] : t \in {"pitch"} \cup VarianceTags}
    \cup {[tag |-> "pitch", values |-> <<"v">>, frames |-> targetLength,
           retake |-> NoRetake]}
    \cup {[tag |-> t, values |-> <<"v">>, frames |-> targetLength, retake |-> r] :
             t \in VarianceTags, r \in Retakes}

InitVariance ==
    /\ ExecOff
    /\ fpc = "variance_parameters"
    /\ \E T \in TargetLengths :
          \E sch \in Schemas :
             \E n \in 0..MaxParams :
                \E ps \in [1..n -> VarianceEntries(T)] :
                   fin = [schema |-> sch, parameters |-> ps, targetLength |-> T]
    /\ fout = <<>>
    /\ StageRunning("Variance", [type |-> "variance", words |-> <<>>,
                                 parameters |-> fin.parameters])

VarianceParameters ==
    /\ fpc = "variance_parameters"
    /\ parametersDone(variancePreprocess(fin.schema, fin.parameters, fin.targetLength),
                      "variance_session", "variance_failed")

VarianceSession ==
    /\ fpc = "variance_session"
    /\ sessionCalled("variance_returned", "variance_failed")

NextVariance ==
    \/ VarianceParameters
    \/ VarianceSession

SpecVariance == InitVariance /\ [][NextVariance]_vars

(***************************************************************************)
(* SpecParameters: the parameter handling of any of the three stages that  *)
(* resample input parameters.                                              *)
(***************************************************************************)
InitParameters == InitPitch \/ InitVariance \/ InitAcoustic

NextParameters ==
    \/ NextPitch
    \/ NextVariance
    \/ NextAcoustic

SpecParameters == InitParameters /\ [][NextParameters]_vars

(***************************************************************************)
(* SpecDepth: AcousticInference::start, "input param: steps / speedup" and *)
(* "input param: depth" (tensors can be allocated).                        *)
(***************************************************************************)
\* int64_t a / b of C++: the quotient truncated towards zero (b # 0)
truncDiv(a, b) ==
    LET q == Abs(a) \div Abs(b)
    IN  IF (a < 0) = (b < 0) THEN q ELSE -q

\* "intDepth = intDepth / acceleration * acceleration"
divisible(intDepth, acceleration) == truncDiv(intDepth, acceleration) * acceleration

\* "int64_t intDepth = std::llround(acousticInput->depth * 1000); intDepth =
\* (std::min)(intDepth, config->maxDepth); ..." for acceleration # 0
intDepthOf(depth, maxDepth, acceleration) ==
    LET rounded == llround(RatMul(depth, RatOf(1000)))
        clipped == IF maxDepth < rounded THEN maxDepth ELSE rounded
    IN  divisible(clipped, acceleration)

\* acousticInput->depth: no check restricts it
Depths ==
    {Rat(-26, 1000), Rat(-1, 1000), RatZero, Rat(1, 2000), Rat(24, 1000),
     Rat(25, 1000), Rat(417, 1000), Rat(8345, 10000), RatOf(1), RatOf(2)}
\* config->maxDepth
MaxDepths == {-10, 0, 30, 500, 1000}
\* acousticInput->steps: no check restricts it
Steps == {-3, 0, 1, 7, 25, 37, 1000}
\* what getSpeedupFromSteps may answer when no divisor is <= steps
SpeedupBelowOne == {0, 1}

\* inferutil::getSpeedupFromSteps(steps): the largest divisor of the step
\* count 1000 that is <= steps; below is the answer when there is none
getSpeedupFromSteps(steps, below) ==
    LET D == {d \in 1..1000 : 1000 % d = 0 /\ d <= steps}
    IN  IF D = {} THEN below ELSE CHOOSE d \in D : \A e \in D : e <= d

InitDepth ==
    /\ ExecOff
    /\ fpc = "steps_input"
    /\ \E d \in Depths :
          \E m \in MaxDepths :
             \E a \in Steps :
                \E v \in BOOLEAN :
                   \E u \in BOOLEAN :
                      \E b \in IF u \/ a >= 1 THEN {0} ELSE SpeedupBelowOne :
                         fin = [depth |-> d, steps |-> a, below |-> b,
                                acceleration |-> "unset",
                                config |-> [maxDepth |-> m, useVariableDepth |-> v,
                                            useContinuousAcceleration |-> u]]
    /\ fout = <<>>
    /\ StageRunning("Acoustic", [type |-> "acoustic", words |-> <<>>,
                                 parameters |-> <<>>])

\* the outcomes of an int64_t division by zero: the process is killed, or
\* the division gives some value
DivisionByZeroValues == {-1, 0}

\* "int64_t acceleration = acousticInput->steps; if
\* (!config->useContinuousAcceleration) acceleration =
\* getSpeedupFromSteps(acceleration);": the local acceleration is kept in fin
AcousticAcceleration ==
    /\ fpc = "steps_input"
    /\ fin' = [fin EXCEPT !.acceleration =
                  IF fin.config.useContinuousAcceleration
                  THEN fin.steps
                  ELSE getSpeedupFromSteps(fin.steps, fin.below)]
    /\ fpc' = "depth_input"
    /\ UNCHANGED <<stageVars, callVars, execVars, fout>>

\* sessionInput->inputs["depth"]
AcousticDepth ==
    /\ fpc = "depth_input"
    /\ IF fin.config.useVariableDepth
       THEN /\ fout' = [dtype |-> "float", depth |-> fin.depth]
            /\ fpc' = "depth_done"
            /\ UNCHANGED pc
       ELSE IF fin.acceleration # 0
       THEN /\ fout' = [dtype |-> "int64",
                        depth |-> RatOf(intDepthOf(fin.depth, fin.config.maxDepth,
                                                   fin.acceleration))]
            /\ fpc' = "depth_done"
            /\ UNCHANGED pc
       ELSE \/ /\ pc' = "crashed"
               /\ fpc' = "depth_crashed"
               /\ UNCHANGED fout
            \/ /\ \E g \in DivisionByZeroValues :
                     fout' = [dtype |-> "int64", depth |-> RatOf(g * fin.acceleration)]
               /\ fpc' = "depth_done"
               /\ UNCHANGED pc
    /\ UNCHANGED <<stageVars, startInput, ret, stopRet, calls, stops, stopped>>
    /\ UNCHANGED <<execVars, fin>>

\* the parameter handling that follows
AcousticDepthDone ==
    /\ fpc = "depth_done"
    /\ fpc' = "depth_parameters"
    /\ UNCHANGED <<stageVars, callVars, execVars, fin, fout>>

NextDepth ==
    \/ AcousticAcceleration
    \/ AcousticDepth
    \/ AcousticDepthDone

SpecDepth == InitDepth /\ [][NextDepth]_vars

(***************************************************************************)
(* SpecPhMidi: preprocessPhonemeMidi of the Duration stage and what        *)
(* DurationInference::start does with its answer.                          *)
(***************************************************************************)
\* the entries of a 0/1 vector that are not rests
NonRest(isRest) == {i \in 1..Len(isRest) : ~isRest[i]}

\* the non-rest entry nearest to entry i, the left one of two equally near
Nearest(isRest, i) ==
    CHOOSE j \in NonRest(isRest) :
       \A k \in NonRest(isRest) :
          \/ Abs(j - i) < Abs(k - i)
          \/ Abs(j - i) = Abs(k - i) /\ j <= k

\* inferutil::fillRestMidiWithNearestInPlace(phMidi, isRest): false if there
\* is no non-rest entry (for an empty vector: as emptyFills says), otherwise
\* every rest entry takes the key of the nearest non-rest entry
fillRestMidiWithNearestInPlace(phMidi, isRest, emptyFills) ==
    IF phMidi = <<>>
    THEN [ok |-> emptyFills, phMidi |-> phMidi]
    ELSE IF NonRest(isRest) = {}
    THEN [ok |-> FALSE, phMidi |-> phMidi]
    ELSE [ok |-> TRUE,
          phMidi |-> [i \in 1..Len(phMidi) |->
                         IF isRest[i] THEN phMidi[Nearest(isRest, i)] ELSE phMidi[i]]]

\* "cumDur": the sum of the durations of the first k notes
RECURSIVE cumDur(_, _)
cumDur(notes, k) ==
    IF k = 0 THEN RatZero ELSE RatAdd(cumDur(notes, k - 1), notes[k].duration)

\* "while (idx < cumDur.size() && phone.start > cumDur[idx]) ++idx; if (idx >=
\* word.notes.size()) idx = word.notes.size() - 1;" with idx counted from 0
RECURSIVE noteIndex(_, _, _)
noteIndex(notes, phone, idx) ==
    IF idx < Len(notes) /\ ~RatLeq(phone.start, cumDur(notes, idx + 1))
    THEN noteIndex(notes, phone, idx + 1)
    ELSE IF idx >= Len(notes) THEN Len(notes) - 1 ELSE idx

\* "for (const auto &phone : word.phones)": what is pushed to isRest and phMidi
phoneEntries(word) ==
    [p \in 1..Len(word.phones) |->
        LET note == word.notes[noteIndex(word.notes, word.phones[p], 0) + 1]
        IN  [rest |-> note.is_rest, key |-> IF note.is_rest THEN 0 ELSE note.key]]

\* "for (const auto &word : words)"; st holds phMidi, isRest and the outcome
RECURSIVE phonemeMidiLoop(_, _, _, _)
phonemeMidiLoop(ws, w, emptyFills, st) ==
    IF w > Len(ws)
    THEN st
    ELSE IF ws[w].notes = <<>>
    THEN phonemeMidiLoop(ws, w + 1, emptyFills, st)
    ELSE LET pushed == phoneEntries(ws[w])
             isRest == st.isRest \o [p \in 1..Len(pushed) |-> pushed[p].rest]
             phMidi == st.phMidi \o [p \in 1..Len(pushed) |-> pushed[p].key]
             filled == fillRestMidiWithNearestInPlace(phMidi, isRest, emptyFills)
         IN  IF filled.ok
             THEN phonemeMidiLoop(ws, w + 1, emptyFills,
                      [st EXCEPT !.isRest = isRest, !.phMidi = filled.phMidi])
             ELSE [st EXCEPT !.ok = FALSE, !.isRest = isRest, !.phMidi = phMidi]

preprocessPhonemeMidi(ws, emptyFills) ==
    phonemeMidiLoop(ws, 1, emptyFills, [ok |-> TRUE, isRest |-> <<>>, phMidi |-> <<>>])

\* notes of one second each: a rest or one of two keys
MidiNotes ==
    {[duration |-> RatOf(1), key |-> k, is_rest |-> FALSE] : k \in {60, 62}}
    \cup {[duration |-> RatOf(1), key |-> 0, is_rest |-> TRUE]}
\* phone starts: the word's origin, the end of the first note, past all notes
MidiStarts == {RatZero, RatOf(1), RatOf(3)}
MidiWords ==
    {[phones |-> ph, notes |-> ns] :
        ph \in UNION {[1..n -> [start : MidiStarts]] : n \in 0..MaxPhones},
        ns \in UNION {[1..n -> MidiNotes] : n \in 0..2}}

InitPhMidi ==
    /\ ExecOff
    /\ fpc = "phmidi_input"
    /\ \E a \in MidiWords :
          \E n \in 1..2 :
             \E ws \in {<<a>>} \cup {<<a, b>> : b \in IF n = 1 THEN {} ELSE MidiWords} :
                \E e \in BOOLEAN :
                   fin = [words |-> ws, emptyFills |-> e]
    /\ fout = <<>>
    /\ StageRunning("Duration", [type |-> "duration", words |-> fin.words])

\* "if (auto exp = preprocessPhonemeMidi(durationInput->words); exp)"
DurationPhMidi ==
    /\ fpc = "phmidi_input"
    /\ LET r == preprocessPhonemeMidi(fin.words, fin.emptyFills)
       IN  /\ fout' = r
           /\ IF r.ok
              THEN /\ fpc' = "phmidi_done"
                   /\ UNCHANGED <<state, ret, pc>>
              ELSE /\ returnError("start", "SessionError", TRUE)
                   /\ fpc' = "phmidi_failed"
    /\ UNCHANGED <<kind, implDriver, encoderSession, session, implResult>>
    /\ UNCHANGED <<startInput, stopRet, calls, stops, stopped>>
    /\ UNCHANGED <<execVars, fin>>

\* sessionInput->inputs["ph_midi"] is set and start() goes on
DurationPhMidiSet ==
    /\ fpc = "phmidi_done"
    /\ fpc' = "phmidi_set"
    /\ UNCHANGED <<stageVars, callVars, execVars, fin, fout>>

NextPhMidi ==
    \/ DurationPhMidi
    \/ DurationPhMidiSet

SpecPhMidi == InitPhMidi /\ [][NextPhMidi]_vars

(***************************************************************************)
(* SpecDict: PhonemeDict::load over the bytes of a file, and the read      *)
(* operations on the loaded dictionary.  A byte is one of the strings      *)
(* below; positions count from 1, so buffer_end is Len(buf) + 1 and the    *)
(* offset of an entry is the position of its first token.                  *)
(***************************************************************************)
MaxLines == 3

TAB == "TAB"
SP == "SP"
CR == "CR"
LF == "LF"
NUL == "NUL"
\* Faulty variant of LineBreaks: a carriage return is an ordinary byte.
LineBreaksWithoutCR == {LF}
LineBreaks == {CR, LF}

\* the first position from p on whose byte is in set, buffer_end if none
FirstAt(buf, p, set) ==
    LET hits == {i \in p..Len(buf) : buf[i] \in set}
    IN  IF hits = {} THEN Len(buf) + 1 ELSE CHOOSE i \in hits : \A j \in hits : i <= j

\* "*p = '\0'" for every position of ps
zeroed(buf, ps) == [i \in 1..Len(buf) |-> IF i \in ps THEN NUL ELSE buf[i]]

\* the null-terminated string that starts at position p
cstr(buf, p) == SubSeq(buf, p, FirstAt(buf, p, {NUL}) - 1)

\* const_char_equal: two keys are the same entry if strcmp says so
const_char_equal(buf, key1, key2) == cstr(buf, key1) = cstr(buf, key2)

\* "map[start] = Impl::Entry{...}": a key already present keeps its pointer
mapAssign(map, buf, from, entry) ==
    IF \E e \in map : const_char_equal(buf, e.key, from)
    THEN {IF const_char_equal(buf, e.key, from)
          THEN [key |-> e.key, offset |-> entry.offset, count |-> entry.count]
          ELSE e : e \in map}
    ELSE map \cup {[key |-> from, offset |-> entry.offset, count |-> entry.count]}

\* "while (start < buffer_end)": one line per round; from is "start"
RECURSIVE traverseLines(_, _, _)
traverseLines(buf, map, from) ==
    IF from > Len(buf)
    THEN [filebuf |-> buf, map |-> map]
    ELSE LET \* skip and clear line breaks
             line == FirstAt(buf, from, {buf[i] : i \in 1..Len(buf)} \ LineBreaks)
             b1 == zeroed(buf, from..(line - 1))
             \* "Find tab", from the second byte of the line on
             p == FirstAt(b1, line + 1, {TAB} \cup LineBreaks)
         IN  IF p > Len(b1)
             THEN \* "Tab not found"
                  LET e == FirstAt(b1, line, LineBreaks)
                  IN  traverseLines(zeroed(b1, line..(e - 1)), map, e)
             ELSE IF b1[p] \in LineBreaks
             THEN traverseLines(b1, map, p + 1)
             ELSE \* out_tab_find: "Find space or line break"
                  LET q == FirstAt(b1, p, LineBreaks)
                      spaces == {i \in p..(q - 1) : b1[i] = SP}
                      b2 == zeroed(b1, {p} \cup spaces \cup ({q} \cap (1..Len(b1))))
                      value_cnt == Cardinality(spaces) + (IF q <= Len(b1) THEN 1 ELSE 0)
                  IN  traverseLines(b2,
                         mapAssign(map, b2, line, [offset |-> p + 1, count |-> value_cnt]),
                         q + 1)

\* PhonemeDict::load once the file is open and read: filebuf is the file
\* plus a terminating line break, the map starts empty
load(file) == traverseLines(file \o <<LF>>, {}, 1)

\* PhonemeList(data, count).vec(): count strings, each after the other's NUL
RECURSIVE vec(_, _, _)
vec(buf, data, count) ==
    IF count = 0 THEN <<>>
    ELSE <<cstr(buf, data)>> \o vec(buf, data + Len(cstr(buf, data)) + 1, count - 1)

\* map.find(key): the entries whose key compares equal (none: map.end())
mapFind(d, key) == {e \in d.map : cstr(d.filebuf, e.key) = key}

\* what dereferencing an iterator gives: iterator::fetch
fetch(d, e) == [first |-> cstr(d.filebuf, e.key), second |-> vec(d.filebuf, e.offset, e.count)]

End == [first |-> <<"end">>, second |-> <<>>]

\* PhonemeDict::find, dereferenced unless it is end()
find(d, key) ==
    IF mapFind(d, key) = {} THEN End ELSE fetch(d, CHOOSE e \in mapFind(d, key) : TRUE)

contains(d, key) == mapFind(d, key) # {}

\* PhonemeDict::operator[]
index(d, key) == IF mapFind(d, key) = {} THEN <<>> ELSE find(d, key).second

size(d) == Cardinality(d.map)
empty(d) == d.map = {}

\* begin() .. end(): every entry of the map, in the map's own order
iterate(d) == {fetch(d, e) : e \in d.map}

\* the lines files are written from
DictKeys == {<<"k">>, <<"k", "m">>, <<"m">>}
DictTokens == {<<"v">>, <<"v", SP, "w">>}
WellFormedLines == {[key |-> k, text |-> k \o <<TAB>> \o t] : k \in DictKeys, t \in DictTokens}
OtherLines == {[key |-> <<>>, text |-> <<>>], [key |-> <<>>, text |-> <<"k">>]}
LineEnds == {<<LF>>, <<CR, LF>>}

RECURSIVE FileBytes(_)
FileBytes(lines) ==
    IF lines = <<>> THEN <<>> ELSE Head(lines).text \o Head(lines).end \o FileBytes(Tail(lines))

\* files of n lines, the last one with or without its line break
FilesOf(n) ==
    {ls \in [1..n -> {[key |-> l.key, text |-> l.text, end |-> e] :
                         l \in WellFormedLines \cup OtherLines, e \in LineEnds \cup {<<>>}}] :
        \A i \in 1..n : (ls[i].end = <<>>) => (i = n)}

\* what an earlier load() left in the dictionary: nothing, or one line
PreviousFiles ==
    {<<>>, <<[key |-> <<"m">>, text |-> <<"m", TAB, "v">>, end |-> <<LF>>]>>}

InitDict ==
    /\ ExecOff
    /\ StageOff
    /\ fpc = "dict_file"
    /\ \E n \in 0..MaxLines :
          \E ls \in FilesOf(n) :
             \E opens \in BOOLEAN :
                \E reads \in IF opens THEN BOOLEAN ELSE {TRUE} :
                   \E before \in PreviousFiles :
                      fin = [lines |-> ls, opens |-> opens, reads |-> reads,
                             before |-> before]
    /\ fout = IF fin.before = <<>>
              THEN [filebuf |-> <<>>, map |-> {}, ok |-> FALSE]
              ELSE LET d == load(FileBytes(fin.before))
                   IN  [filebuf |-> d.filebuf, map |-> d.map, ok |-> TRUE]

\* PhonemeDict::load
DictLoad ==
    /\ fpc = "dict_file"
    /\ IF ~fin.opens
       THEN \* "if (!file.is_open()) ... return false;"
            /\ fout' = [fout EXCEPT !.ok = FALSE]
            /\ fpc' = "dict_failed"
       ELSE IF ~fin.reads
       THEN \* "if (!file.read(...)) { ...; filebuf.clear(); return false; }"
            /\ fout' = [fout EXCEPT !.filebuf = <<>>, !.ok = FALSE]
            /\ fpc' = "dict_failed"
       ELSE LET d == load(FileBytes(fin.lines))
            IN  /\ fout' = [fout EXCEPT !.filebuf = d.filebuf, !.map = d.map, !.ok = TRUE]
                /\ fpc' = "dict_loaded"
    /\ UNCHANGED <<stageVars, callVars, execVars, fin>>

NextDict ==
    \/ DictLoad

SpecDict == InitDict /\ [][NextDict]_vars

(***************************************************************************)
(* SpecDictReaders: two threads reading one loaded dictionary.  fin holds  *)
(* the dictionary as load() left it and the order in which the hash map    *)
(* hands out its entries; fout holds the shared state (filebuf, map) and   *)
(* each reader's own iterator and last answer.                             *)
(***************************************************************************)
Readers == {1, 2}

\* files of two well-formed lines, the first "k\tv", the same key twice included
ReaderFiles ==
    {ls \in FilesOf(2) :
        /\ \A i \in 1..2 : ls[i].key # <<>> /\ ls[i].end = <<LF>>
        /\ ls[1].text = <<"k", TAB, "v">>}

\* the sequences that list every entry of the map once
MapOrders(map) ==
    {o \in [1..Cardinality(map) -> map] : \A i, j \in 1..Cardinality(map) : o[i] = o[j] => i = j}

NoIterator == [pos |-> 0, copy |-> <<>>]
NoAnswer == [op |-> "none", key |-> <<>>, pos |-> 0, value |-> <<>>]

InitDictReaders ==
    /\ ExecOff
    /\ StageOff
    /\ fpc = "dict_loaded"
    /\ \E ls \in ReaderFiles :
          LET d == load(FileBytes(ls))
          IN  \E o \in MapOrders(d.map) :
                 /\ fin = [lines |-> ls, opens |-> TRUE, loaded |-> d, order |-> o]
                 /\ fout = [filebuf |-> d.filebuf, map |-> d.map, ok |-> TRUE,
                            it |-> [r \in Readers |-> NoIterator],
                            answer |-> [r \in Readers |-> NoAnswer]]

\* the dictionary as the readers see it
shared == [filebuf |-> fout.filebuf, map |-> fout.map]

\* Faulty variant of next: the cached pair survives the advance.
nextKeepsCopy(it) == [it EXCEPT !.pos = it.pos + 1]

\* PhonemeDict::iterator::next: "++it; ... _copy.reset();"
next(it) == [pos |-> it.pos + 1, copy |-> <<>>]

\* operator*: fetch() fills _copy unless it is filled, then the copy is returned
deref(d, order, it) ==
    IF it.copy # <<>> THEN it ELSE [it EXCEPT !.copy = <<fetch(d, order[it.pos])>>]

\* find, contains, operator[], size, empty: const members, one answer each
ReaderLookup(r) ==
    /\ fpc = "dict_loaded"
    /\ \E op \in {"find", "contains", "index", "size", "empty"} :
          \E key \in IF op \in {"size", "empty"} THEN {<<>>} ELSE DictKeys :
             fout' = [fout EXCEPT !.answer[r] =
                        [op |-> op, key |-> key, pos |-> 0,
                         value |-> CASE op = "find" -> find(shared, key)
                                     [] op = "contains" -> contains(shared, key)
                                     [] op = "index" -> index(shared, key)
                                     [] op = "size" -> size(shared)
                                     [] op = "empty" -> empty(shared)]]
    /\ UNCHANGED <<stageVars, callVars, execVars, fin, fpc>>

\* begin(): an iterator at the first entry, which is end() for an empty map
ReaderBegin(r) ==
    /\ fpc = "dict_loaded"
    /\ fout' = [fout EXCEPT !.it[r] = [pos |-> 1, copy |-> <<>>]]
    /\ UNCHANGED <<stageVars, callVars, execVars, fin, fpc>>

\* "*it" / "it->" on an iterator that is not end()
ReaderDeref(r) ==
    /\ fpc = "dict_loaded"
    /\ fout.it[r].pos \in 1..size(shared)
    /\ LET it == deref(shared, fin.order, fout.it[r])
       IN  fout' = [fout EXCEPT !.it[r] = it,
                                !.answer[r] = [op |-> "deref", key |-> <<>>,
                                               pos |-> it.pos, value |-> it.copy[1]]]
    /\ UNCHANGED <<stageVars, callVars, execVars, fin, fpc>>

\* "++it" on an iterator that is not end()
ReaderNext(r) ==
    /\ fpc = "dict_loaded"
    /\ fout.it[r].pos \in 1..size(shared)
    /\ fout' = [fout EXCEPT !.it[r] = next(fout.it[r])]
    /\ UNCHANGED <<stageVars, callVars, execVars, fin, fpc>>

NextDictReaders ==
    \E r \in Readers :
       \/ ReaderLookup(r)
       \/ ReaderBegin(r)
       \/ ReaderDeref(r)
       \/ ReaderNext(r)

SpecDictReaders == InitDictReaders /\ [][NextDictReaders]_vars

(***************************************************************************)
(* SpecLock: threads calling initialize(), start() and result() on one     *)
(* stage instance.  The instance is the stage variables; fout holds        *)
(* impl.mutex (the thread that has it exclusively, 0 for none, and the     *)
(* threads that have it shared), where each thread is in its call and what *)
(* its last result() gave.                                                 *)
(***************************************************************************)
Threads == {1, 2}

FreeMutex == [writer |-> 0, readers |-> {}]

\* Faulty variant of uniqueLockable: a writer does not keep writers out.
uniqueLockableBesideWriter(mutex) == mutex.readers = {}

\* std::unique_lock<std::shared_mutex> lock(impl.mutex) can return
uniqueLockable(mutex) == mutex.writer = 0 /\ mutex.readers = {}

\* std::shared_lock<std::shared_mutex> lock(impl.mutex) can return
sharedLockable(mutex) == mutex.writer = 0

\* what a thread's last stop() returned, and whether another thread was
\* inside a session run or open at that time
NoStop == [ret |-> "none", inside |-> FALSE]

\* a result whose read raced with a write
TornResult == [id |-> -1, out |-> NoOutput]

InitLock ==
    /\ ExecOff
    /\ kind \in Kinds
    /\ state = InitialState
    /\ implDriver = FALSE
    /\ encoderSession = "null"
    /\ session = "null"
    /\ implResult = NoResult
    /\ pc = "idle"
    /\ startInput = NoInput
    /\ ret = NoRet
    /\ stopRet = FALSE
    /\ calls = 0
    /\ stops = 0
    /\ stopped = FALSE
    /\ fpc = "threads"
    /\ fin = <<>>
    /\ fout = [mutex |-> FreeMutex,
               at |-> [t \in Threads |-> "idle"],
               got |-> [t \in Threads |-> NoResult],
               stopped |-> [t \in Threads |-> NoStop]]

\* thread t moves to position p; the mutex becomes m
threadStep(t, p, m) == fout' = [fout EXCEPT !.at[t] = p, !.mutex = m]

\* the call of thread t returns, its locks go out of scope
threadReturns(t) ==
    threadStep(t, "idle", [writer |-> IF fout.mutex.writer = t THEN 0 ELSE fout.mutex.writer,
                           readers |-> fout.mutex.readers \ {t}])

lockUnchanged == UNCHANGED <<kind, callVars, execVars, fpc, fin>>

\* initialize(): the arguments are accepted, the call waits for the mutex
LockInitialize(t) ==
    /\ fout.at[t] = "idle"
    /\ threadStep(t, "init_lock", fout.mutex)
    /\ UNCHANGED <<state, implDriver, encoderSession, session, implResult>>
    /\ lockUnchanged

\* "std::unique_lock lock(impl.mutex); impl.result.reset();" and the driver
\* and configuration lookups
LockInitializeReset(t) ==
    /\ fout.at[t] = "init_lock"
    /\ uniqueLockable(fout.mutex)
    /\ threadStep(t, "init_reset", [fout.mutex EXCEPT !.writer = t])
    /\ UNCHANGED <<state, implDriver, encoderSession, session, implResult>>
    /\ lockUnchanged

LockInitializeDriver(t) ==
    /\ fout.at[t] = "init_reset"
    /\ implResult' = NoResult
    /\ \E o \in {"no_driver", "bad_config", "ok"} :
          IF o = "ok"
          THEN /\ implDriver' = TRUE
               /\ threadStep(t, IF TwoSession(kind) THEN "init_open_encoder" ELSE "init_open",
                             fout.mutex)
               /\ UNCHANGED state
          ELSE /\ implDriver' = (o = "bad_config")
               /\ state' = "Failed"
               /\ threadReturns(t)
    /\ UNCHANGED <<encoderSession, session>>
    /\ lockUnchanged

\* impl.encoderSession->open(...) returns
LockInitializeOpenEncoder(t) ==
    /\ fout.at[t] = "init_open_encoder"
    /\ \E ok \in BOOLEAN :
          IF ok
          THEN /\ encoderSession' = "open"
               /\ threadStep(t, "init_open", fout.mutex)
               /\ UNCHANGED state
          ELSE /\ encoderSession' = "closed"
               /\ state' = "Failed"
               /\ threadReturns(t)
    /\ UNCHANGED <<implDriver, session, implResult>>
    /\ lockUnchanged

\* the open of the (predictor) session returns, and initialize() with it
LockInitializeOpen(t) ==
    /\ fout.at[t] = "init_open"
    /\ \E ok \in BOOLEAN :
          /\ session' = IF ok THEN "open" ELSE "closed"
          /\ state' = IF ok THEN initializeFinalState(kind, state) ELSE "Failed"
    /\ threadReturns(t)
    /\ UNCHANGED <<implDriver, encoderSession, implResult>>
    /\ lockUnchanged

\* start(): the driver check under the shared lock, setState(Running) and
\* the building of the tensors, which may fail
LockStart(t) ==
    /\ fout.at[t] = "idle"
    /\ sharedLockable(fout.mutex)
    /\ IF ~implDriver
       THEN /\ state' = "Failed"
            /\ UNCHANGED fout
       ELSE \E ok \in BOOLEAN :
               IF ok
               THEN /\ state' = "Running"
                    /\ threadStep(t, IF TwoSession(kind) THEN "encoder_lock" ELSE "session_lock",
                                  fout.mutex)
               ELSE /\ state' = "Failed"
                    /\ UNCHANGED fout
    /\ UNCHANGED <<implDriver, encoderSession, session, implResult>>
    /\ lockUnchanged

\* "Run Linguistic Encoder Inference": the lock and the isOpen check
LockStartEncoder(t) ==
    /\ fout.at[t] = "encoder_lock"
    /\ uniqueLockable(fout.mutex)
    /\ IF encoderSession = "open"
       THEN /\ threadStep(t, "encoder_run", [fout.mutex EXCEPT !.writer = t])
            /\ UNCHANGED state
       ELSE /\ state' = "Failed"
            /\ threadStep(t, "idle", fout.mutex)
    /\ UNCHANGED <<implDriver, encoderSession, session, implResult>>
    /\ lockUnchanged

\* runEncoder returns, the block with the lock ends; the predictor's
\* tensors are built, which may fail
LockStartEncoderReturns(t) ==
    /\ fout.at[t] = "encoder_run"
    /\ \E ok \in BOOLEAN :
          IF ok
          THEN /\ threadStep(t, "session_lock", [fout.mutex EXCEPT !.writer = 0])
               /\ UNCHANGED state
          ELSE /\ state' = "Failed"
               /\ threadReturns(t)
    /\ UNCHANGED <<implDriver, encoderSession, session, implResult>>
    /\ lockUnchanged

\* the lock before the session check and impl.session->start(sessionInput)
LockStartSession(t) ==
    /\ fout.at[t] = "session_lock"
    /\ uniqueLockable(fout.mutex)
    /\ IF session = "open"
       THEN /\ threadStep(t, "session_run", [fout.mutex EXCEPT !.writer = t])
            /\ UNCHANGED state
       ELSE /\ state' = "Failed"
            /\ threadStep(t, "idle", fout.mutex)
    /\ UNCHANGED <<implDriver, encoderSession, session, implResult>>
    /\ lockUnchanged

\* the session returns; its outputs are extracted, which may fail
LockStartSessionReturns(t) ==
    /\ fout.at[t] = "session_run"
    /\ \E ok \in BOOLEAN :
          IF ok
          THEN /\ threadStep(t, "store", fout.mutex)
               /\ UNCHANGED state
          ELSE /\ state' = "Failed"
               /\ threadReturns(t)
    /\ UNCHANGED <<implDriver, encoderSession, session, implResult>>
    /\ lockUnchanged

\* "impl.result = result; setState(Idle); return result;"
LockStartStore(t) ==
    /\ fout.at[t] = "store"
    /\ implResult' = [id |-> t, out |-> [type |-> "opaque"]]
    /\ state' = "Idle"
    /\ threadReturns(t)
    /\ UNCHANGED <<implDriver, encoderSession, session>>
    /\ lockUnchanged

\* result(): the shared lock of every stage but the vocoder, whose result()
\* takes no lock
LockResult(t) ==
    /\ fout.at[t] = "idle"
    /\ IF kind = "Vocoder"
       THEN threadStep(t, "result_read", fout.mutex)
       ELSE /\ sharedLockable(fout.mutex)
            /\ threadStep(t, "result_read",
                          [fout.mutex EXCEPT !.readers = fout.mutex.readers \cup {t}])
    /\ UNCHANGED <<state, implDriver, encoderSession, session, implResult>>
    /\ lockUnchanged

\* another thread is at its write of impl.result
WriterAtResult(t) == \E w \in Threads \ {t} : fout.at[w] \in {"init_reset", "store"}

\* "return impl.result;": a read that races with a write gives the old
\* value, the new one or a broken one
LockResultRead(t) ==
    /\ fout.at[t] = "result_read"
    /\ \E v \in {implResult} \cup
                (IF WriterAtResult(t)
                 THEN {TornResult, NoResult} \cup
                      {[id |-> w, out |-> [type |-> "opaque"]] : w \in Threads \ {t}}
                 ELSE {}) :
          fout' = [fout EXCEPT !.at[t] = "idle",
                               !.mutex.readers = fout.mutex.readers \ {t},
                               !.got[t] = v]
    /\ UNCHANGED <<state, implDriver, encoderSession, session, implResult>>
    /\ lockUnchanged

\* the positions at which a call is inside a session run or a session open
InsideSession == {"encoder_run", "session_run", "init_open_encoder", "init_open"}

\* stop() of thread t returns answer ("true" or "false") and, if terminates,
\* has called setState(Terminated)
stopReturns(t, answer, terminates) ==
    /\ fout' = [fout EXCEPT !.stopped[t] =
                   [ret |-> answer,
                    inside |-> \E o \in Threads \ {t} : fout.at[o] \in InsideSession]]
    /\ state' = IF terminates THEN "Terminated" ELSE state
    /\ UNCHANGED fpc

\* the body of stop(): no statement of it touches impl.mutex.  Duration,
\* Pitch and Variance stop every session they have and always end
\* Terminated; Acoustic and Vocoder call impl.session->isOpen() without a
\* null check, which is undefined on a null handle
stopBody(t) ==
    \E cancel \in BOOLEAN :
       IF TwoSession(kind)
       THEN stopReturns(t, IF (encoderSession = "null" /\ session = "null") \/ cancel
                           THEN "true" ELSE "false", TRUE)
       ELSE CASE session = "null" ->
                   \/ fpc' = "crashed" /\ UNCHANGED <<fout, state>>
                   \/ \E ub \in BOOLEAN :
                         stopReturns(t, IF ub THEN "true" ELSE "false", ub)
              [] session = "closed" -> stopReturns(t, "false", FALSE)
              [] OTHER -> stopReturns(t, IF cancel THEN "true" ELSE "false", cancel)

\* Faulty variant of LockStop: stop() takes the stage lock before its body.
LockStopUnderLock(t) ==
    /\ fout.at[t] = "idle"
    /\ uniqueLockable(fout.mutex)
    /\ stopBody(t)
    /\ UNCHANGED <<implDriver, encoderSession, session, implResult>>
    /\ UNCHANGED <<kind, callVars, execVars, fin>>

\* stop()
LockStop(t) ==
    /\ fout.at[t] = "idle"
    /\ stopBody(t)
    /\ UNCHANGED <<implDriver, encoderSession, session, implResult>>
    /\ UNCHANGED <<kind, callVars, execVars, fin>>

\* a crashed process takes no further step
NextLock ==
    /\ fpc = "threads"
    /\ \E t \in Threads :
          \/ LockInitialize(t)
          \/ LockInitializeReset(t)
          \/ LockInitializeDriver(t)
          \/ LockInitializeOpenEncoder(t)
          \/ LockInitializeOpen(t)
          \/ LockStart(t)
          \/ LockStartEncoder(t)
          \/ LockStartEncoderReturns(t)
          \/ LockStartSession(t)
          \/ LockStartSessionReturns(t)
          \/ LockStartStore(t)
          \/ LockResult(t)
          \/ LockResultRead(t)
          \/ LockStop(t)

SpecLock == InitLock /\ [][NextLock]_vars

(***************************************************************************)
(* SpecSpkEmbed: the speaker mixing of DurationInference::start.  Floats   *)
(* are small integers, on which fmaf is exact.  fin.prior is what the      *)
(* buffer of the created tensor holds before the mixing writes to it.      *)
(***************************************************************************)
\* config->speakers and config->hiddenSize; the second configuration has an
\* embedding whose length is not hiddenSize
SpkConfigs ==
    {[useSpeakerEmbedding |-> u, hiddenSize |-> 2,
      speakers |-> [a |-> <<1, 2>>, b |-> e]] :
        u \in BOOLEAN, e \in {<<3, 0>>, <<3>>}}

\* speaker.name (x is in no configuration) and speaker.proportion
SpkSpeakers == [name : {"a", "b", "x"}, proportion : {1, 2}]

\* phone.speakers: none, one or two
SpkLists == {<<>>} \cup {<<s>> : s \in SpkSpeakers}
               \cup {<<s, r>> : s \in SpkSpeakers, r \in SpkSpeakers}

\* what the fresh buffer may hold in each element
PriorContents == {0, 5}

\* std::fmaf(x, y, z)
fmaf(x, y, z) == x * y + z

\* "for (const auto &speaker : phone.speakers)" for the phone at index
\* currPhoneIndex; st holds the buffer (indexed from 0) and the outcome
RECURSIVE spkSpeakerLoop(_, _, _, _, _)
spkSpeakerLoop(config, speakers, s, currPhoneIndex, st) ==
    IF s > Len(speakers) \/ ~st.ok
    THEN st
    ELSE IF speakers[s].name \notin DOMAIN config.speakers
    THEN spkSpeakerLoop(config, speakers, s + 1, currPhoneIndex, st)
    ELSE LET embedding == config.speakers[speakers[s].name]
         IN  IF Len(embedding) # config.hiddenSize
             THEN [st EXCEPT !.ok = FALSE, !.err = "length"]
             ELSE spkSpeakerLoop(config, speakers, s + 1, currPhoneIndex,
                     [st EXCEPT !.buffer =
                        [i \in DOMAIN st.buffer |->
                           LET j == i - currPhoneIndex * Len(embedding)
                           IN  IF j \in 0..(Len(embedding) - 1)
                               THEN fmaf(speakers[s].proportion, embedding[j + 1], st.buffer[i])
                               ELSE st.buffer[i]]])

\* the loops over words and phones, with the phones in score order
RECURSIVE spkPhoneLoop(_, _, _, _)
spkPhoneLoop(config, phones, p, st) ==
    IF p > Len(phones) \/ ~st.ok
    THEN st
    ELSE IF phones[p] = <<>>
    THEN [st EXCEPT !.ok = FALSE, !.err = "missing speakers"]
    ELSE spkPhoneLoop(config, phones, p + 1,
            spkSpeakerLoop(config, phones[p], 1, p - 1, st))

\* the spk_embed block: the tensor of shape {1, phoneCount, hiddenSize}
spkEmbed(config, phones, prior) ==
    spkPhoneLoop(config, phones, 1,
       [ok |-> TRUE, err |-> "none",
        buffer |-> [i \in 0..(Len(phones) * config.hiddenSize - 1) |-> prior]])

InitSpkEmbed ==
    /\ ExecOff
    /\ fpc = "spk_input"
    /\ \E c \in SpkConfigs :
          \E n \in 1..MaxPhones :
             \E ph \in [1..n -> SpkLists] :
                \E prior \in PriorContents :
                   fin = [config |-> c, phones |-> ph, prior |-> prior]
    /\ fout = <<>>
    /\ StageRunning("Duration", [type |-> "duration", phones |-> fin.phones])

\* "if (config->useSpeakerEmbedding) { ... }"
DurationSpkEmbed ==
    /\ fpc = "spk_input"
    /\ IF ~fin.config.useSpeakerEmbedding
       THEN /\ fout' = [ok |-> TRUE, set |-> FALSE]
            /\ fpc' = "spk_done"
            /\ UNCHANGED <<state, ret, pc>>
       ELSE \E created \in BOOLEAN :
               IF ~created
               THEN \* Tensor::create failed: "return exp.takeError();"
                    /\ fout' = [ok |-> FALSE, set |-> FALSE]
                    /\ fpc' = "spk_failed"
                    /\ returnError("start", "tensor", FALSE)
               ELSE LET r == spkEmbed(fin.config, fin.phones, fin.prior)
                    IN  IF r.ok
                        THEN /\ fout' = [ok |-> TRUE, set |-> TRUE,
                                         shape |-> <<1, Len(fin.phones), fin.config.hiddenSize>>,
                                         data |-> r.buffer]
                             /\ fpc' = "spk_done"
                             /\ UNCHANGED <<state, ret, pc>>
                        ELSE /\ fout' = [ok |-> FALSE, set |-> FALSE, err |-> r.err]
                             /\ fpc' = "spk_failed"
                             /\ returnError("start", "SessionError", TRUE)
    /\ UNCHANGED <<kind, implDriver, encoderSession, session, implResult>>
    /\ UNCHANGED <<startInput, stopRet, calls, stops, stopped>>
    /\ UNCHANGED <<execVars, fin>>

NextSpkEmbed ==
    \/ DurationSpkEmbed

SpecSpkEmbed == InitSpkEmbed /\ [][NextSpkEmbed]_vars

(***************************************************************************)
(* SpecParser: parse_parameters_common over one array field.  fin holds    *)
(* the requested parameter type, the JSON field, the kind of container and *)
(* whether an error collector is present; fout holds the container, the    *)
(* indices reported to the collector and the loop's index.                 *)
(***************************************************************************)
\* Bound on the length of the JSON array.
MaxItems == 2

\* ParamTagMappings::varianceMapping
varianceMapping ==
    <<<<"energy", "Energy">>, <<"breathiness", "Breathiness">>,
      <<"voicing", "Voicing">>, <<"tension", "Tension">>,
      <<"mouth_opening", "MouthOpening">>>>

\* a value-initialised element of a mapping array: an empty string_view and
\* a default-constructed ParamTag
ValueInitialised == <<"", "ParamTag()">>

\* ParamTagMappings::transitionMapping: an array of three elements with two
\* initialisers
transitionMapping ==
    <<<<"gender", "Gender">>, <<"velocity", "Velocity">>, ValueInitialised>>

\* std::find_if(map.begin(), map.end(), pred): 0 stands for map.end()
find_if(mapping, key) ==
    IF \E i \in 1..Len(mapping) : mapping[i][1] = key
    THEN CHOOSE i \in 1..Len(mapping) :
            /\ mapping[i][1] = key
            /\ \A k \in 1..(i - 1) : mapping[k][1] # key
    ELSE 0

\* insertParamHelper: std::set::insert or std::vector::push_back
insertParamHelper(container, out, param) ==
    IF container = "set"
    THEN IF \E i \in 1..Len(out) : out[i] = param THEN out ELSE Append(out, param)
    ELSE Append(out, param)

\* tryFindAndInsert: the answer and the container afterwards
tryFindAndInsert(mapping, key, container, out) ==
    LET it == find_if(mapping, key)
    IN  IF it # 0
        THEN [found |-> TRUE, out |-> insertParamHelper(container, out, mapping[it][2])]
        ELSE [found |-> FALSE, out |-> out]

tryFindAndInsertVarianceParameters(key, container, out) ==
    tryFindAndInsert(varianceMapping, key, container, out)

tryFindAndInsertTransitionParameters(key, container, out) ==
    tryFindAndInsert(transitionMapping, key, container, out)

\* "variance || transition"
tryFindAndInsertParameters(key, container, out) ==
    LET v == tryFindAndInsertVarianceParameters(key, container, out)
    IN  IF v.found THEN v ELSE tryFindAndInsertTransitionParameters(key, container, out)

ParameterTypes == {"All", "Variance", "Transition"}

\* the elements a JSON array may hold
JsonItems ==
    {[isString |-> TRUE, str |-> s] :
        s \in {"energy", "mouth_opening", "gender", "velocity", "", "pitch", "Energy"}}
    \cup {[isString |-> FALSE, str |-> "none"]}

JsonArrays == UNION {[1..n -> JsonItems] : n \in 0..MaxItems}

InitParser ==
    /\ ExecOff
    /\ StageOff
    /\ fpc = "parse_field"
    /\ \E pt \in ParameterTypes :
          \E container \in {"set", "vector"} :
             \E ec \in BOOLEAN :
                \/ \E field \in {"missing", "notArray"} :
                      fin = [PT |-> pt, container |-> container, ec |-> ec,
                             field |-> field, arr |-> <<>>]
                \/ \E arr \in JsonArrays :
                      fin = [PT |-> pt, container |-> container, ec |-> ec,
                             field |-> "array", arr |-> arr]
    /\ fout = [out |-> <<>>, errors |-> <<>>, index |-> 0]

\* "if (const auto it = obj.find(fieldName); it != obj.end())" and the
\* type test of the field
ParseField ==
    /\ fpc = "parse_field"
    /\ CASE fin.field = "missing" ->
               /\ fpc' = "parse_done"
               /\ UNCHANGED fout
         [] fin.field = "notArray" ->
               /\ fpc' = "parse_done"
               /\ fout' = IF fin.ec
                          THEN [fout EXCEPT !.errors = Append(@, "type mismatch")]
                          ELSE fout
         [] OTHER ->
               /\ fpc' = IF fin.arr = <<>> THEN "parse_done" ELSE "parse_items"
               /\ UNCHANGED fout
    /\ UNCHANGED <<stageVars, callVars, execVars, fin>>

\* one round of "for (const auto &item : std::as_const(arr))"
ParseItem ==
    /\ fpc = "parse_items"
    /\ LET item == fin.arr[fout.index + 1]
           r == CASE fin.PT = "All" ->
                        tryFindAndInsertParameters(item.str, fin.container, fout.out)
                  [] fin.PT = "Variance" ->
                        tryFindAndInsertVarianceParameters(item.str, fin.container, fout.out)
                  [] OTHER ->
                        tryFindAndInsertTransitionParameters(item.str, fin.container, fout.out)
           reported == IF fin.ec THEN Append(fout.errors, fout.index) ELSE fout.errors
       IN  fout' = IF ~item.isString
                   THEN [fout EXCEPT !.errors = reported, !.index = @ + 1]
                   ELSE IF r.found
                   THEN [fout EXCEPT !.out = r.out, !.index = @ + 1]
                   ELSE [fout EXCEPT !.errors = reported, !.index = @ + 1]
    /\ fpc' = IF fout.index + 1 = Len(fin.arr) THEN "parse_done" ELSE "parse_items"
    /\ UNCHANGED <<stageVars, callVars, execVars, fin>>

NextParser ==
    \/ ParseField
    \/ ParseItem

SpecParser == InitParser /\ [][NextParser]_vars

(***************************************************************************)
(* SpecArchive: Archive::previewDir and Archive::hasFile over an opened    *)
(* archive.  A path is a sequence of characters; fin holds the items of    *)
(* the archive, fout holds _lastPreview, the number of calls made and the  *)
(* last call with its answer.                                              *)
(***************************************************************************)
\* Bound on the number of previewDir()/hasFile() calls.
MaxPreviews == 2

\* the items an archive is made of
ArchiveItems ==
    {[path |-> <<"a">>, isDir |-> TRUE],
     [path |-> <<"a", "/", "x">>, isDir |-> FALSE],
     [path |-> <<"a", "b", "/", "x">>, isDir |-> FALSE],
     [path |-> <<"c">>, isDir |-> FALSE]}

\* _archive->items(): up to two items (two entries may have one path)
Archives ==
    {<<>>} \cup {<<i>> : i \in ArchiveItems}
           \cup {<<i, j>> : i \in ArchiveItems, j \in ArchiveItems}

\* the paths a caller asks for; the first is the empty root path
PreviewPaths == {<<>>, <<"a">>, <<"a", "b">>, <<"z">>}

FileNames == {<<"a">>, <<"x">>, <<"c">>}

\* "item.path().find(path.generic_u8string()) != 0" is false
startsWith(str, prefix) ==
    /\ Len(prefix) <= Len(str)
    /\ SubSeq(str, 1, Len(prefix)) = prefix

\* fs::path::filename(): what follows the last separator
filename(path) ==
    LET seps == {i \in 1..Len(path) : path[i] = "/"}
        last == IF seps = {} THEN 0 ELSE CHOOSE i \in seps : \A j \in seps : j <= i
    IN  SubSeq(path, last + 1, Len(path))

\* the loop of previewDir over items k, k + 1, ...: "directory[name] = entry"
RECURSIVE scanItems(_, _, _, _)
scanItems(items, k, path, directory) ==
    IF k > Len(items) THEN directory
    ELSE IF ~startsWith(items[k].path, path)
    THEN scanItems(items, k + 1, path, directory)
    ELSE LET entry == [name |-> filename(items[k].path),
                       basePath |-> items[k].path,
                       isDir |-> items[k].isDir,
                       index |-> k - 1]
         IN  scanItems(items, k + 1, path,
                {e \in directory : e.name # entry.name} \cup {entry})

\* "mutable LastPreview _lastPreview = {};"
LastPreviewInit == [first |-> <<>>, second |-> {}]

\* Archive::previewDir: the cache afterwards, which is also what it returns
previewDir(items, lastPreview, path) ==
    IF lastPreview.first = path
    THEN lastPreview
    ELSE [first |-> path, second |-> scanItems(items, 1, path, {})]

\* Archive::hasFile(path, name), given the listing previewDir returned
hasFileAnswer(listing, name) ==
    IF listing = {} THEN "DirectoryNotFound"
    ELSE IF \E e \in listing : e.name = name /\ ~e.isDir THEN "ok"
    ELSE "FileNotFound"

InitArchive ==
    /\ ExecOff
    /\ StageOff
    /\ fpc = "archive"
    /\ \E items \in Archives : fin = [items |-> items]
    /\ fout = [lastPreview |-> LastPreviewInit, calls |-> 0, op |-> "none",
               path |-> <<>>, name |-> <<>>, listing |-> {}, answer |-> "none"]

ArchivePreviewDir ==
    /\ fpc = "archive"
    /\ fout.calls < MaxPreviews
    /\ \E path \in PreviewPaths :
          LET after == previewDir(fin.items, fout.lastPreview, path)
          IN  fout' = [lastPreview |-> after, calls |-> fout.calls + 1,
                       op |-> "previewDir", path |-> path, name |-> <<>>,
                       listing |-> after.second, answer |-> "none"]
    /\ UNCHANGED <<stageVars, callVars, execVars, fpc, fin>>

ArchiveHasFile ==
    /\ fpc = "archive"
    /\ fout.calls < MaxPreviews
    /\ \E path \in PreviewPaths :
          \E name \in FileNames :
             LET after == previewDir(fin.items, fout.lastPreview, path)
             IN  fout' = [lastPreview |-> after, calls |-> fout.calls + 1,
                          op |-> "hasFile", path |-> path, name |-> name,
                          listing |-> after.second,
                          answer |-> hasFileAnswer(after.second, name)]
    /\ UNCHANGED <<stageVars, callVars, execVars, fpc, fin>>

NextArchive ==
    \/ ArchivePreviewDir
    \/ ArchiveHasFile

SpecArchive == InitArchive /\ [][NextArchive]_vars

(***************************************************************************)
(* Steps in which a call returns.                                          *)
(***************************************************************************)
StartCalled ==
    /\ pc = "idle" /\ calls' = calls + 1
    /\ pc' = "pre" \/ ret'.op = "start"

StartReturns ==
    \/ pc \notin {"idle", "crashed"} /\ pc' = "idle"
    \/ StartCalled /\ pc' = "idle"

InitializeReturns ==
    /\ pc = "idle" /\ calls' = calls + 1
    /\ pc' = "idle" /\ ret'.op = "initialize"

\* an initialize() that got past the checks of its argument
InitializeAccepted == InitializeReturns /\ ret'.err # "bad_args"

StopReturns == stops' = stops + 1

(***************************************************************************)
(* Bookkeeping of the driver run: events holds <<stage, what>> for every   *)
(* create / initialize / start that exec has attempted, for every start()  *)
(* that has returned ("returned"), returned a usable result ("start_ok")   *)
(* and for every completed write-back.                                     *)
(***************************************************************************)
PipelineOrder == <<"Duration", "Pitch", "Variance", "Acoustic", "Vocoder">>

Attempted(k) ==
    \E e \in {"create", "initialize", "start"} : <<k, e>> \in events

InFlight(k) == <<k, "start">> \in events /\ <<k, "returned">> \notin events

StageFailures == {"create", "initialize", "start", "run"}

PositionOf(k) == CHOOSE i \in 1..Len(PipelineOrder) : PipelineOrder[i] = k

(***************************************************************************)
(* C1: the driver runs the stages strictly in the order Duration, Pitch,   *)
(* Variance, Acoustic, Vocoder: a stage is initialized and started only    *)
(* after the start() of every earlier stage has returned successfully and  *)
(* its write-back is complete, and at most one stage is in flight.         *)
(***************************************************************************)
C1_StagesRunSerially ==
    /\ \A i \in 1..Len(PipelineOrder) :
          Attempted(PipelineOrder[i]) =>
             \A j \in 1..(i - 1) :
                /\ <<PipelineOrder[j], "start_ok">> \in events
                /\ <<PipelineOrder[j], "writeback">> \in events
    /\ Cardinality({k \in Kinds : InFlight(k)}) <= 1
    /\ \A k \in Kinds : InFlight(k) => k = kind

\* the last stage is in flight
C1_Witness ==
    /\ InFlight("Vocoder")
    /\ pc = "run"

(***************************************************************************)
(* C2: when creating, initializing or starting a stage fails, no later     *)
(* stage is created, initialized or started, no WAV is written, the exit   *)
(* code is not zero, and what earlier stages wrote into the score context  *)
(* is still there when the failure is raised.                              *)
(***************************************************************************)
C2_FailureStopsPipeline ==
    errorMsg.what \in StageFailures =>
       /\ \A k \in Kinds :
             PositionOf(k) > PositionOf(errorMsg.stage) => ~Attempted(k)
       /\ ~wav.written
       /\ epc \in {"thrown", "exit"}
       /\ epc = "thrown" => <<words, parameters>> = snapshot
       /\ epc = "exit" => exitCode # 0

\* the variance stage has failed to start after the duration and the pitch
\* stage changed the score context, and the run has ended
C2_Witness ==
    /\ epc = "exit"
    /\ errorMsg.what = "start"
    /\ errorMsg.stage = "Variance"
    /\ <<"Pitch", "writeback">> \in events
    /\ snapshot[2] # <<>>
    /\ \E w \in 1..Len(snapshot[1]) :
          \E j \in 1..Len(snapshot[1][w].phones) : snapshot[1][w].phones[j].start.n > 0

(***************************************************************************)
(* C3: if the two configurations differ in at least one of the nine fields *)
(* the driver fails with the mismatch error naming exactly the differing   *)
(* fields, before any stage is created, initialized or started; if all     *)
(* nine are equal the check passes.                                        *)
(***************************************************************************)
C3_ConfigMismatchRejected ==
    /\ acousticConfig # NoConfig =>
          LET differing ==
                 {f \in {"sampleRate", "hopSize", "winSize", "fftSize",
                         "melChannels", "melMinFreq", "melMaxFreq", "melBase",
                         "melScale"} : acousticConfig[f] # vocoderConfig[f]}
              named == {errorMsg.fields[i] : i \in 1..Len(errorMsg.fields)}
          IN  IF differing # {}
              THEN /\ epc = "thrown"
                   /\ errorMsg.what = "config_mismatch"
                   /\ named = differing
                   /\ Len(errorMsg.fields) = Cardinality(differing)
                   /\ events = {}
              ELSE /\ errorMsg.what # "config_mismatch"
                   /\ epc \notin {"check", "load", "setup"}
    /\ errorMsg.what = "config_mismatch" =>
          /\ events = {}
          /\ epc = "exit" => exitCode # 0

\* only hopSize differs
C3_Witness ==
    /\ epc = "thrown"
    /\ errorMsg.what = "config_mismatch"
    /\ errorMsg.fields = <<"hopSize">>
    /\ acousticConfig.hopSize = 512
    /\ vocoderConfig.hopSize = 256

(***************************************************************************)
(* C4: on every path on which start() returns an error the state is        *)
(* Failed when start() returns, assuming no concurrent stop().             *)
(***************************************************************************)
C4_FailedStartSetsFailed ==
    [][StartReturns /\ ~ret'.ok /\ ~stopped' => state' = "Failed"]_vars

(***************************************************************************)
(* C5: once the state is Failed or Terminated a further start() returns an *)
(* error at once (no session is run) and leaves the state unchanged.       *)
(***************************************************************************)
C5_StartRejectedWhenFailedOrTerminated ==
    [][StartCalled /\ state \in {"Failed", "Terminated"}
          => pc' = "idle" /\ ~ret'.ok /\ state' = state]_vars

(***************************************************************************)
(* C6: when initialize() returns success the state is Idle.                *)
(***************************************************************************)
C6_InitializeSuccessIsIdle ==
    [][InitializeReturns /\ ret'.ok => state' = "Idle"]_vars

(***************************************************************************)
(* C7: whenever initialize() returns an error (null or misnamed args, no   *)
(* driver, bad configuration, session that does not open) the state is     *)
(* Failed.                                                                 *)
(***************************************************************************)
C7_InitializeErrorIsFailed ==
    [][InitializeReturns /\ ~ret'.ok => state' = "Failed"]_vars

(***************************************************************************)
(* C8: stop() changes the state only when the stage is Running and the     *)
(* cancel request succeeds, and then to Terminated; otherwise the state is *)
(* unchanged.                                                              *)
(***************************************************************************)
C8_StopOnlyTerminatesRunning ==
    [][StopReturns =>
          IF state = "Running" /\ stopRet'
          THEN state' = "Terminated"
          ELSE state' = state]_vars

(***************************************************************************)
(* C9: a successful start() leaves the state Idle and result() is the      *)
(* output it returned; a failed start() leaves the stored result as it     *)
(* was; an initialize() that got past its argument checks empties the      *)
(* stored result, and nothing else changes it (so result() is empty until  *)
(* the next successful start()).                                           *)
(***************************************************************************)
C9_ResultIsLastOutput ==
    [][/\ StartReturns /\ ret'.ok =>
             /\ state' = "Idle"
             /\ result' = ret'.val
             /\ ret'.val # NoResult
             /\ ret'.val # implResult
       /\ StartReturns /\ ~ret'.ok => result' = result
       /\ InitializeAccepted => result' = NoResult
       /\ result' # result => (StartReturns /\ ret'.ok) \/ InitializeAccepted
      ]_vars

\* a start() has failed on an instance that held the result of an earlier
\* start(), and the result is still there
C9_Witness ==
    /\ ret.op = "start" /\ ~ret.ok
    /\ result # NoResult
    /\ pc = "idle"

(***************************************************************************)
(* C10: after a successful variance stage, for every tag of the schema's   *)
(* prediction list the score context holds exactly one parameter with that *)
(* tag, with the predicted values and the interval frameWidth.             *)
(***************************************************************************)
C10_VarianceWriteBackExact ==
    (<<"Variance", "writeback">> \in events /\ schema # <<>> /\ epc # "crashed") =>
       \A s \in 1..Len(schema) :
          LET at == {i \in 1..Len(parameters) : parameters[i].tag = schema[s]}
          IN  /\ Cardinality(at) = 1
              /\ \A i \in at :
                    /\ parameters[i].values = PredValues(schema[s])
                    /\ parameters[i].interval = "frameWidth"

(***************************************************************************)
(* C11: the pitch write-back leaves at least one Pitch parameter, gives    *)
(* every Pitch parameter the values and the interval (frameWidth) of the   *)
(* stage's result, and leaves every other parameter (and the words) as     *)
(* they were.                                                              *)
(***************************************************************************)
C11_PitchWriteBack ==
    [][(epc = "writeback" /\ kind = "Pitch" /\ epc' # "writeback") =>
          /\ \E i \in 1..Len(parameters') : parameters'[i].tag = "pitch"
          /\ \A i \in 1..Len(parameters') :
                parameters'[i].tag = "pitch" =>
                   /\ parameters'[i].values = ret.val.out.pitch
                   /\ parameters'[i].interval = ret.val.out.interval
          /\ ret.val.out.interval = "frameWidth"
          /\ Len(parameters') >= Len(parameters)
          /\ \A i \in 1..Len(parameters) :
                IF parameters[i].tag = "pitch"
                THEN parameters'[i].tag = "pitch"
                ELSE parameters'[i] = parameters[i]
          /\ \A i \in (Len(parameters) + 1)..Len(parameters') :
                parameters'[i].tag = "pitch"
          /\ words' = words]_vars

\* the pitch write-back has run on a context that held two user Pitch
\* entries
C11_Witness ==
    /\ <<"Pitch", "writeback">> \in events
    /\ stageIdx = 3
    /\ epc = "create"
    /\ Len(parameters) = 2
    /\ \A i \in 1..2 : /\ parameters[i].tag = "pitch"
                       /\ parameters[i].retake = "window"
                       /\ parameters[i].interval = "frameWidth"

\* the first (numbered from 1) entry of the duration vector that belongs to
\* word k
wordBegin(ws, k) == getPhoneCount(SubSeq(ws, 1, k - 1)) + 1
wordEnd(ws, k) == getPhoneCount(SubSeq(ws, 1, k))

(***************************************************************************)
(* C12: after a successful duration stage and its write-back, within every *)
(* word the phone starts are non-decreasing and the first is 0.            *)
(***************************************************************************)
C12_PhoneStartsNonDecreasing ==
    fpc = "done" =>
       \A k \in 1..Len(fout.words) :
          LET phones == fout.words[k].phones
          IN  /\ phones # <<>> => phones[1].start = RatZero
              /\ \A j \in 1..(Len(phones) - 1) :
                    RatLeq(phones[j].start, phones[j + 1].start)

(***************************************************************************)
(* C13: whenever the duration start() succeeds, the returned durations of  *)
(* every word's phones add up exactly to that word's duration.             *)
(***************************************************************************)
C13_WordDurationConserved ==
    (fpc \in {"duration_writeback", "done"}) =>
       \A k \in 1..Len(fin.words) :
          sumRange(result.out.durations, wordBegin(fin.words, k),
                   wordEnd(fin.words, k)) = getWordDuration(fin.words[k])

\* two words of different durations, each with its own scale factor, and a
\* prediction that had to be rescaled
C13_Witness ==
    /\ fpc = "duration_writeback"
    /\ Len(fin.words) = 2
    /\ fin.words[1].dur # fin.words[2].dur
    /\ Len(fin.words[1].phones) = 2
    /\ result.out.durations # fin.view
    /\ result.out.durations[1] # result.out.durations[3]

(***************************************************************************)
(* C14: the duration start() fails with a SessionError, state Failed and   *)
(* no new result whenever the predicted count differs from the phone count *)
(* or a word's predicted sum is zero; it succeeds only if the counts are   *)
(* equal and every word's predicted sum is finite and not zero.            *)
(***************************************************************************)
C14_DurationRejectsBadPrediction ==
    (fpc \in {"failed", "duration_writeback"}) =>
       LET n == getPhoneCount(fin.words)
           counted == Len(fin.view) = n
           sums == {sumRange(fin.view, wordBegin(fin.words, k), wordEnd(fin.words, k)) :
                       k \in {j \in 1..Len(fin.words) :
                                 wordEnd(fin.words, j) <= Len(fin.view)}}
       IN  /\ (~counted \/ RatZero \in sums) =>
                 /\ ~ret.ok
                 /\ ret.err = "SessionError"
                 /\ state = "Failed"
                 /\ result = NoResult
           /\ ret.ok =>
                 /\ counted
                 /\ \A x \in sums : IsFinite(x) /\ x # RatZero
                 /\ state = "Idle"

\* as many predictions as phones, all finite, and a word whose predictions
\* cancel
C14_Witness ==
    /\ fpc = "failed"
    /\ Len(fin.view) = getPhoneCount(fin.words)
    /\ \A i \in 1..Len(fin.view) : IsFinite(fin.view[i])
    /\ fout.msg = "invalid predicted word duration"
    /\ state = "Failed"

(***************************************************************************)
(* C15: the f0 of the Acoustic result is the tensor the acoustic session   *)
(* was given as input "f0", its mel is the session's output, the driver's  *)
(* mel and f0 are those of the result, and the vocoder session is given    *)
(* exactly these two tensors.                                              *)
(***************************************************************************)
C15_TensorsHandedOver ==
    /\ (fpc \in {"acoustic_returned", "vocoder_start", "vocoder_session"}) =>
          /\ result.out.f0 = fout.sessionInputs["f0"]
          /\ result.out.f0 # NoTensor
          /\ result.out.mel = melOutput(fin.targetLength)
    /\ (fpc \in {"vocoder_start", "vocoder_session"}) =>
          /\ mel = result.out.mel
          /\ f0 = result.out.f0
    /\ fpc = "vocoder_session" =>
          fout.vocoderInputs = [mel |-> result.out.mel, f0 |-> result.out.f0]

\* the vocoder session is given an f0 that was converted from a midi pitch
\* with a tone shift applied
C15_Witness ==
    /\ fpc = "vocoder_session"
    /\ fout.called
    /\ fout.vocoderInputs.f0.data[1].midiToHz
    /\ fout.vocoderInputs.f0.data[1].shift # 0

\* the input supplies no values for tag t: no entry has the tag, or every
\* entry that has it is without values
NoValuesFor(t) ==
    \A i \in 1..Len(fin.parameters) :
       fin.parameters[i].tag = t => fin.parameters[i].values = <<>>

C17_GenderVelocityDefaults ==
    (fpc # "acoustic_parameters" /\ fout.called) =>
       /\ ("gender" \in fin.config.parameters /\ NoValuesFor("gender")) =>
             fout.sessionInputs["gender"] = createFilled(fin.targetLength, 0)
       /\ ("velocity" \in fin.config.parameters /\ NoValuesFor("velocity")) =>
             fout.sessionInputs["velocity"] = createFilled(fin.targetLength, 1)

\* the last entry of the input with tag t, 0 if there is none
LastWithTag(t) ==
    LET I == {i \in 1..Len(fin.parameters) : fin.parameters[i].tag = t}
    IN  IF I = {} THEN 0 ELSE CHOOSE i \in I : \A j \in I : j <= i

\* the entries of the input that the stage hands to resample if nothing
\* fails before: Pitch its pitch and expr entries, Variance all, Acoustic
\* those of its parameter loop, the source of f0 and a tone shift with values
ResampledEntries ==
    LET all == 1..Len(fin.parameters)
        f0Source == IF LastWithTag("f0") # 0 THEN LastWithTag("f0")
                    ELSE LastWithTag("pitch")
        shift == LastWithTag("tone_shift")
    IN  CASE kind = "Pitch" ->
               {i \in all : fin.parameters[i].tag \in {"pitch", "expr"}}
          [] kind = "Variance" -> all
          [] OTHER ->
               {i \in all : fin.parameters[i].tag \in AcousticParamTags}
               \cup ({f0Source} \ {0})
               \cup {i \in {shift} \ {0} :
                        f0Source # 0 /\ fin.parameters[i].values # <<>>}

ParametersHandled ==
    fpc \notin {"pitch_parameters", "variance_parameters", "acoustic_parameters"}

StartFailedBeforeSession ==
    /\ fpc \in {"pitch_failed", "variance_failed", "acoustic_failed"}
    /\ ret.op = "start" /\ ~ret.ok /\ ret.err = "SessionError"
    /\ state = "Failed"
    /\ ~fout.called

\* an entry of the Acoustic input that gets the default: Gender or Velocity
\* with an empty resampled sequence
AcousticDefaulted(i) ==
    /\ kind = "Acoustic"
    /\ fin.parameters[i].tag \in {"gender", "velocity"}
    /\ resample(fin.parameters[i], i) = <<>>

(***************************************************************************)
(* C18 as stated: in Pitch, Variance and Acoustic, if a parameter the      *)
(* stage resamples comes out with a length other than targetLength,        *)
(* start() fails with a SessionError and state Failed and the session is   *)
(* not called.                                                             *)
(***************************************************************************)
C18_ResampledLengthOrFailure ==
    ParametersHandled =>
       \A i \in ResampledEntries :
          Len(resample(fin.parameters[i], i)) # fin.targetLength =>
             StartFailedBeforeSession

(***************************************************************************)
(* C18 amended: the same, except for a Gender or Velocity entry of the     *)
(* Acoustic input whose resampled sequence is empty, which is replaced by  *)
(* the default tensor of targetLength frames.                              *)
(***************************************************************************)
C18_ResampledLengthOrFailureOrDefault ==
    ParametersHandled =>
       \A i \in ResampledEntries :
          IF AcousticDefaulted(i)
          THEN fout.st.failed \/
               Len(fout.st.inputs[fin.parameters[i].tag].data) = fin.targetLength
          ELSE Len(resample(fin.parameters[i], i)) # fin.targetLength =>
                  StartFailedBeforeSession

\* the variance stage fails on a schema parameter that has values but
\* resamples short, after a pitch of the right length
C18_Witness ==
    /\ fpc = "variance_failed"
    /\ fout.st.msg = "resample failed"
    /\ fout.st.satisfyPitch
    /\ \E i \in 1..Len(fin.parameters) :
          /\ fin.parameters[i].tag \in VarianceTags
          /\ fin.parameters[i].values # <<>>
          /\ fin.parameters[i].frames # fin.targetLength

\* the entries of the input with tag t
EntriesWithTag(t) == {i \in 1..Len(fin.parameters) : fin.parameters[i].tag = t}

\* frame t (from 0) of the mask that a retake window stands for: with s and
\* e the window bounds in frames, rounded and clamped to [0, targetLength],
\* true iff s <= t < e; without a window, true
WindowFrame(retake, t) ==
    LET s == clamp(llround(RatDiv(retake.start, FrameWidth)), 0, fin.targetLength)
        e == clamp(llround(RatDiv(retake.end, FrameWidth)), 0, fin.targetLength)
    IN  IF retake.has THEN s <= t /\ t < e ELSE TRUE

(***************************************************************************)
(* C19: when the Pitch stage's input has one pitch entry, frame t of the   *)
(* stage's retake mask is true iff t lies in the entry's retake window     *)
(* [s, e) in frames (all true without a window, all false when s >= e);    *)
(* when the Variance stage's input has one entry for the j-th schema       *)
(* prediction, the same holds for that prediction's part of the retake     *)
(* mask.                                                                   *)
(***************************************************************************)
C19_RetakeMaskIsWindow ==
    (ParametersHandled /\ ~fout.st.failed) =>
       /\ kind = "Pitch" =>
             \A i \in EntriesWithTag("pitch") :
                EntriesWithTag("pitch") = {i} =>
                   \A t \in 0..(fin.targetLength - 1) :
                      fout.st.inputs["retake"].data[t + 1]
                         = WindowFrame(fin.parameters[i].retake, t)
       /\ kind = "Variance" =>
             \A j \in 1..Len(fin.schema) :
                \A i \in EntriesWithTag(fin.schema[j]) :
                   EntriesWithTag(fin.schema[j]) = {i} =>
                      \A t \in 0..(fin.targetLength - 1) :
                         fout.st.retake[(j - 1) * fin.targetLength + t]
                            = WindowFrame(fin.parameters[i].retake, t)

\* element [0][t][j] (t and j from 0) of a tensor of shape [1, T, n] whose
\* elements are in row-major order
ElementAt(tensor, t, j) == tensor.data[t * tensor.shape[3] + j + 1]

\* a window with 0 <= start <= end
OrderedWindow(retake) ==
    retake.has => RatLeq(RatZero, retake.start) /\ RatLeq(retake.start, retake.end)

(***************************************************************************)
(* C20: the Variance stage's retake tensor has shape [1, targetLength,     *)
(* nPredictions], and when every schema prediction has at most one entry   *)
(* in the input, with a window of 0 <= start <= end if any, its element    *)
(* [0][t][j] in row-major order is false iff the entry of the j-th schema  *)
(* prediction has a retake window and frame t lies outside it.             *)
(***************************************************************************)
C20_RetakeTensorLayout ==
    (kind = "Variance" /\ ParametersHandled /\ ~fout.st.failed
       /\ \A j \in 1..Len(fin.schema) :
             /\ Cardinality(EntriesWithTag(fin.schema[j])) <= 1
             /\ \A i \in EntriesWithTag(fin.schema[j]) :
                   OrderedWindow(fin.parameters[i].retake)) =>
       LET tensor == fout.sessionInputs["retake"]
       IN  /\ tensor.shape = <<1, fin.targetLength, Len(fin.schema)>>
           /\ \A t \in 0..(fin.targetLength - 1) :
                 \A j \in 0..(Len(fin.schema) - 1) :
                    ElementAt(tensor, t, j) =
                       (\A i \in EntriesWithTag(fin.schema[j + 1]) :
                           WindowFrame(fin.parameters[i].retake, t))

\* x is the largest integer multiple of a that is <= bound
LargestMultipleAtMost(x, a, bound) ==
    /\ \E k \in -1100..1100 : x = k * a
    /\ x <= bound
    /\ \A k \in -1100..1100 : k * a <= bound => k * a <= x

(***************************************************************************)
(* C21: when useVariableDepth is false, the "depth" input of the acoustic  *)
(* session is the largest integer multiple of the acceleration that is     *)
(* <= min(round(depth * 1000), maxDepth), for every positive acceleration. *)
(***************************************************************************)
C21_DepthRoundedDown ==
    (fpc \in {"depth_done", "depth_parameters"}
       /\ ~fin.config.useVariableDepth /\ fin.acceleration > 0) =>
       /\ fout.dtype = "int64"
       /\ LET rounded == llround(RatMul(fin.depth, RatOf(1000)))
              bound == IF rounded < fin.config.maxDepth THEN rounded
                       ELSE fin.config.maxDepth
          IN  LargestMultipleAtMost(fout.depth.n, fin.acceleration, bound)

\* the phones of the score that have a note, in order, each with its note
ScorePhones ==
    LET RECURSIVE all(_)
        all(w) == IF w > Len(fin.words) THEN <<>>
                  ELSE IF fin.words[w].notes = <<>> THEN all(w + 1)
                  ELSE phoneEntries(fin.words[w]) \o all(w + 1)
    IN  all(1)

(***************************************************************************)
(* C22: if at least one phone of the score maps to a note that is not a    *)
(* rest, building ph_midi succeeds and every rest entry has the key of the *)
(* nearest non-rest entry of the whole score.                              *)
(***************************************************************************)
C22_RestFillFailsOnlyIfAllRest ==
    (/\ fpc # "phmidi_input"
     /\ fin.emptyFills
     /\ \E p \in 1..Len(ScorePhones) : ~ScorePhones[p].rest) =>
       /\ fpc # "phmidi_failed"
       /\ fout.ok
       /\ fout.phMidi =
             fillRestMidiWithNearestInPlace(
                 [p \in 1..Len(ScorePhones) |-> ScorePhones[p].key],
                 [p \in 1..Len(ScorePhones) |-> ScorePhones[p].rest], TRUE).phMidi

\* the first note (counted from 0) whose cumulative duration is strictly
\* greater than the phone's start, the last note if there is none
FirstNoteAfter(notes, phone) ==
    LET later == {k \in 1..Len(notes) : ~RatLeq(cumDur(notes, k), phone.start)}
    IN  IF later = {} THEN Len(notes) - 1
        ELSE (CHOOSE k \in later : \A m \in later : k <= m) - 1

\* the notes C23 assigns to the phones of the score, word by word
NotesAfterStart ==
    LET RECURSIVE all(_)
        all(w) == IF w > Len(fin.words) THEN <<>>
                  ELSE IF fin.words[w].notes = <<>> THEN all(w + 1)
                  ELSE LET word == fin.words[w]
                       IN  [p \in 1..Len(word.phones) |->
                              word.notes[FirstNoteAfter(word.notes, word.phones[p]) + 1]]
                           \o all(w + 1)
    IN  all(1)

(***************************************************************************)
(* C23: each phone takes the rest flag and key of the first note of its    *)
(* word whose cumulative duration strictly exceeds the phone's start (a    *)
(* phone starting on a note boundary goes to the later note), or of the    *)
(* last note when its start is past every cumulative duration.             *)
(***************************************************************************)
C23_PhoneTakesFirstNoteAfterStart ==
    fpc \in {"phmidi_done", "phmidi_set"} =>
       /\ Len(fout.isRest) = Len(NotesAfterStart)
       /\ \A p \in 1..Len(NotesAfterStart) :
             /\ fout.isRest[p] = NotesAfterStart[p].is_rest
             /\ ~NotesAfterStart[p].is_rest => fout.phMidi[p] = NotesAfterStart[p].key

\* the well-formed lines of the file, and the tokens written on a line
WellFormed == {i \in 1..Len(fin.lines) : fin.lines[i].key # <<>>}
RECURSIVE SplitBySpaces(_)
SplitBySpaces(s) ==
    LET cut == FirstAt(s, 1, {SP})
    IN  IF cut > Len(s) THEN <<s>>
        ELSE <<SubSeq(s, 1, cut - 1)>> \o SplitBySpaces(SubSeq(s, cut + 1, Len(s)))
TokensOf(l) == SplitBySpaces(SubSeq(l.text, Len(l.key) + 2, Len(l.text)))
DistinctKeys == \A i, j \in WellFormed : fin.lines[i].key = fin.lines[j].key => i = j

(***************************************************************************)
(* C24: for a file whose well-formed lines have pairwise distinct keys,    *)
(* mixed with empty lines, lines without a tab, CRLF endings and a last    *)
(* line without a line break, load succeeds, size() is the number of       *)
(* well-formed lines and find(key) gives exactly that line's tokens.       *)
(***************************************************************************)
C24_LoadFindsEveryLine ==
    (fpc = "dict_loaded" /\ DistinctKeys) =>
       /\ fout.ok
       /\ size(fout) = Cardinality(WellFormed)
       /\ \A i \in WellFormed :
             find(fout, fin.lines[i].key) =
                [first |-> fin.lines[i].key, second |-> TokensOf(fin.lines[i])]
       /\ \A k \in DictKeys :
             (\A i \in WellFormed : fin.lines[i].key # k) => find(fout, k) = End

C24_Witness ==
    /\ fpc = "dict_loaded"
    /\ DistinctKeys
    /\ Cardinality(WellFormed) = 2
    /\ \E i \in 1..Len(fin.lines) : fin.lines[i].text = <<"k">>
    /\ \E i \in 1..Len(fin.lines) : fin.lines[i].end = <<CR, LF>>
    /\ fin.lines[Len(fin.lines)].end = <<>>
    /\ fin.lines[Len(fin.lines)].key # <<>>
    /\ \A i \in WellFormed : find(fout, fin.lines[i].key) # End

(***************************************************************************)
(* C25: for any loaded file, also one in which a key occurs on several     *)
(* lines, iterating from begin() to end() yields every well-formed line    *)
(* exactly once, and find(name) differs from end() iff iteration yields an *)
(* entry of that name, with the same phoneme sequence.                     *)
(***************************************************************************)
C25_IterationYieldsEveryLine ==
    fpc = "dict_loaded" =>
       /\ size(fout) = Cardinality(WellFormed)
       /\ \A i \in WellFormed :
             [first |-> fin.lines[i].key, second |-> TokensOf(fin.lines[i])] \in iterate(fout)
       /\ \A k \in DictKeys :
             /\ find(fout, k) # End <=> \E e \in iterate(fout) : e.first = k
             /\ \A e \in iterate(fout) : e.first = k => find(fout, k) = e

\* what a read answers when no other thread runs: its value on the
\* dictionary as load() left it
SequentialAnswer(a) ==
    CASE a.op = "none" -> <<>>
      [] a.op = "find" -> find(fin.loaded, a.key)
      [] a.op = "contains" -> contains(fin.loaded, a.key)
      [] a.op = "index" -> index(fin.loaded, a.key)
      [] a.op = "size" -> size(fin.loaded)
      [] a.op = "empty" -> empty(fin.loaded)
      [] a.op = "deref" -> fetch(fin.loaded, fin.order[a.pos])

(***************************************************************************)
(* C26: after load() has returned, no read operation (find, contains,      *)
(* operator[], size, empty, begin, end, iterator advance and dereference)  *)
(* changes the file buffer or the hash map, and every answer of every      *)
(* reader, however the readers interleave, is the answer a sequential      *)
(* execution gives.                                                        *)
(***************************************************************************)
C26_ReadersLeaveSharedStateAlone ==
    [][fpc = "dict_loaded" /\ "loaded" \in DOMAIN fin =>
          /\ fout'.filebuf = fout.filebuf
          /\ fout'.map = fout.map
          /\ \A r \in Readers : fout'.answer[r].value = SequentialAnswer(fout'.answer[r])]_vars

C26_Witness ==
    /\ fpc = "dict_loaded"
    /\ "loaded" \in DOMAIN fin
    /\ size(shared) = 2
    /\ fout.answer[1].op = "deref" /\ fout.answer[1].pos = 2
    /\ fout.answer[2].op = "find" /\ fout.answer[2].value # End
    /\ fout.it[2].pos = 1 /\ fout.it[2].copy # <<>>

(***************************************************************************)
(* C27: the WAV file the driver writes declares 32-bit IEEE float, mono,   *)
(* and the sample rate of the singer's vocoder and acoustic configuration, *)
(* whatever sample rate is configured.                                     *)
(***************************************************************************)
C27_WavDeclaresConfiguredRate ==
    [][(epc = "wav" /\ wav'.written) =>
          /\ wav'.format = "IEEE_FLOAT"
          /\ wav'.bitsPerSample = 32
          /\ wav'.channels = 1
          /\ wav'.sampleRate = vocoderConfig.sampleRate
          /\ wav'.sampleRate = acousticConfig.sampleRate]_vars

(***************************************************************************)
(* C28: the process exits with code 0 iff the run succeeded, that is all   *)
(* five stages succeeded and the complete audio was written to the output  *)
(* WAV; every failure, not all PCM frames written included, gives a        *)
(* non-zero exit code.                                                     *)
(***************************************************************************)
C28_ExitZeroIffComplete ==
    epc = "exit" =>
       (exitCode = 0 <=>
          /\ \A k \in Kinds : <<k, "start_ok">> \in events
          /\ wav.written
          /\ wav.complete)

(***************************************************************************)
(* C29: however concurrent start() and initialize() calls on one stage     *)
(* interleave, at most one call at a time is inside a session run or a     *)
(* session open, and a start() that extracts the session outputs and      *)
(* stores the stage result holds the write side of the stage lock.         *)
(***************************************************************************)
C29_OneCallInsideSession ==
    fpc = "threads" =>
       /\ Cardinality({t \in Threads : fout.at[t] \in InsideSession}) <= 1
       /\ \A t \in Threads :
             fout.at[t] \in InsideSession \cup {"store"} => fout.mutex.writer = t

C29_Witness ==
    /\ fpc = "threads"
    /\ TwoSession(kind)
    /\ fout.at[1] = "store"
    /\ fout.at[2] = "session_lock"
    /\ implResult.id = 2

(***************************************************************************)
(* C30: for every stage type result() reads the stored result only while   *)
(* it holds the read side of the stage lock, so that no result() is at its *)
(* read while a start() or initialize() is at its write of the result.     *)
(***************************************************************************)
C30_ResultReadUnderReadLock ==
    fpc = "threads" =>
       \A t \in Threads :
          fout.at[t] = "result_read" =>
             /\ t \in fout.mutex.readers
             /\ ~WriterAtResult(t)

(***************************************************************************)
(* C31: stop() never waits for the stage lock: while another thread's      *)
(* start() holds the write lock and is inside the session run, a stop()    *)
(* call can run to its return without that start() taking a step.          *)
(***************************************************************************)
C31_StopDoesNotWait ==
    fpc = "threads" =>
       \A s \in Threads : \A t \in Threads \ {s} :
          (/\ fout.at[s] \in {"encoder_run", "session_run"}
           /\ fout.mutex.writer = s
           /\ fout.at[t] = "idle") => ENABLED LockStop(t)

C31_Witness ==
    /\ fpc = "threads"
    /\ fout.at[1] = "session_run"
    /\ fout.mutex.writer = 1
    /\ fout.stopped[2].ret = "true"
    /\ fout.stopped[2].inside
    /\ state = "Terminated"

(***************************************************************************)
(* C32: if stop() has set the stage to Terminated while a start() is in    *)
(* flight, the state is still Terminated after that start() has returned:  *)
(* no step of the completing start() replaces Terminated by Idle or by     *)
(* Failed.                                                                 *)
(***************************************************************************)
C32_TerminatedSurvivesStart ==
    [][(/\ pc \notin {"idle", "crashed"}
        /\ state = "Terminated"
        /\ stops' = stops) => state' = "Terminated"]_vars

(***************************************************************************)
(* C40: stop() is safe in every state of every stage type, also before     *)
(* initialize() was ever called and after a failed initialize(): it never  *)
(* dereferences a session handle that was not created: every stop() call  *)
(* returns, none ends in a crash.                                          *)
(***************************************************************************)
C40_StopSafeInEveryState ==
    [][stops' = stops + 1 => pc' # "crashed"]_vars

\* the sum over the speakers of a phone that the configuration knows of
\* proportion * embedding[j], j counted from 0
RECURSIVE KnownMix(_, _, _)
KnownMix(speakers, s, j) ==
    IF s > Len(speakers) THEN 0
    ELSE (IF speakers[s].name \in DOMAIN fin.config.speakers
          THEN speakers[s].proportion * fin.config.speakers[speakers[s].name][j + 1]
          ELSE 0) + KnownMix(speakers, s + 1, j)

(***************************************************************************)
(* C33: with useSpeakerEmbedding set, row p of spk_embed [1, nPhones,      *)
(* hiddenSize] is exactly the sum over phone p's known speakers of         *)
(* proportion * embedding, whatever the fresh buffer held before (the zero *)
(* vector if all speakers are unknown); a phone with an empty speaker list *)
(* makes start() fail.                                                     *)
(***************************************************************************)
C33_SpeakerMixIsExactSum ==
    ("config" \in DOMAIN fin /\ fin.config.useSpeakerEmbedding /\ fpc # "spk_input") =>
       /\ (\E p \in 1..Len(fin.phones) : fin.phones[p] = <<>>) => fpc = "spk_failed"
       /\ fpc = "spk_done" =>
             /\ fout.shape = <<1, Len(fin.phones), fin.config.hiddenSize>>
             /\ \A p \in 1..Len(fin.phones) :
                   \A j \in 0..(fin.config.hiddenSize - 1) :
                      fout.data[(p - 1) * fin.config.hiddenSize + j] = KnownMix(fin.phones[p], 1, j)

\* the keys valid for a parameter type, and the tag of each key
ValidKeys(pt) ==
    LET variance == {"energy", "breathiness", "voicing", "tension", "mouth_opening"}
        transition == {"gender", "velocity"}
    IN  CASE pt = "Variance" -> variance
          [] pt = "Transition" -> transition
          [] OTHER -> variance \cup transition

TagOfKey ==
    [energy |-> "Energy", breathiness |-> "Breathiness", voicing |-> "Voicing",
     tension |-> "Tension", mouth_opening |-> "MouthOpening",
     gender |-> "Gender", velocity |-> "Velocity"]

(***************************************************************************)
(* C34: a round of the parameter-name loop inserts the element's tag iff   *)
(* the element is a string equal to a key valid for the requested type;    *)
(* every other element (the empty string included) leaves the container    *)
(* as it was and is reported when an error collector is present.           *)
(***************************************************************************)
C34_OnlyValidKeysInserted ==
    [][fpc = "parse_items" =>
         LET item == fin.arr[fout.index + 1]
         IN  IF item.isString /\ item.str \in ValidKeys(fin.PT)
             THEN /\ \E i \in 1..Len(fout'.out) : fout'.out[i] = TagOfKey[item.str]
                  /\ fin.container = "vector" => fout'.out = Append(fout.out, TagOfKey[item.str])
                  /\ fout'.errors = fout.errors
             ELSE /\ fout'.out = fout.out
                  /\ fin.ec => fout'.errors = Append(fout.errors, fout.index)]_vars

\* the indices i of "input.input->parameters[i]" in the first loop of the
\* variance write-back: 0 .. nParams - 1
writeBackIndices(nParams) == 0..(nParams - 1)

(***************************************************************************)
(* C35: when the driver is about to write the Variance result back, every  *)
(* index the write-back accesses in the score context's parameter list is  *)
(* below the list's length, for every schema size and every parameter      *)
(* list.                                                                   *)
(***************************************************************************)
C35_WriteBackStaysInsideList ==
    (epc = "writeback" /\ kind = "Variance") =>
       \A i \in writeBackIndices(Len(schema)) : i < Len(parameters)

\* the total phone count of all words
RECURSIVE TotalPhones(_)
TotalPhones(ws) ==
    IF ws = <<>> THEN 0 ELSE Len(ws[1].phones) + TotalPhones(Tail(ws))

(***************************************************************************)
(* C36: once ph_midi is built it has one entry per phone: its length (the  *)
(* second dimension of shape [1, nPhones]) is the total phone count of all *)
(* words, also when a word has phones but no notes.                        *)
(***************************************************************************)
C36_PhMidiHasOneEntryPerPhone ==
    (fpc \in {"phmidi_done", "phmidi_set"}) =>
       Len(fout.phMidi) = TotalPhones(fin.words)

(***************************************************************************)
(* C37: when Acoustic start() is about to round the integer depth          *)
(* (useVariableDepth false), the acceleration it divides by is not zero,   *)
(* for every steps value and both settings of useContinuousAcceleration.   *)
(* Stated for the cases in which the sources determine the divisor: steps  *)
(* passed through unchanged, or steps >= 1.                                *)
(***************************************************************************)
C37_DepthDivisorNotZero ==
    (/\ fpc = "depth_input"
     /\ ~fin.config.useVariableDepth
     /\ (fin.config.useContinuousAcceleration \/ fin.steps >= 1)) =>
       fin.acceleration # 0

\* the dictionary an earlier load() left, as InitDict builds it
DictBefore ==
    IF fin.before = <<>>
    THEN [filebuf |-> <<>>, map |-> {}]
    ELSE load(FileBytes(fin.before))

(***************************************************************************)
(* C38: after a load() that returned false the dictionary is exactly as it *)
(* was before the call or empty, and every entry of the map refers to a    *)
(* position inside the file buffer.                                        *)
(***************************************************************************)
C38_FailedLoadLeavesDictionaryConsistent ==
    fpc = "dict_failed" =>
       /\ \/ fout.filebuf = DictBefore.filebuf /\ fout.map = DictBefore.map
          \/ fout.filebuf = <<>> /\ fout.map = {}
       /\ \A e \in fout.map :
             /\ e.key \in 1..Len(fout.filebuf)
             /\ e.offset \in 1..Len(fout.filebuf)

\* an uncached scan: the entries of the items whose path starts with path,
\* by file name, a later item replacing an earlier one of the same name
UncachedListing(path) ==
    LET hits == {k \in 1..Len(fin.items) : startsWith(fin.items[k].path, path)}
        last(n) == CHOOSE k \in hits :
                      /\ filename(fin.items[k].path) = n
                      /\ \A j \in hits : filename(fin.items[j].path) = n => j <= k
    IN  {[name |-> n, basePath |-> fin.items[last(n)].path,
          isDir |-> fin.items[last(n)].isDir, index |-> last(n) - 1] :
            n \in {filename(fin.items[k].path) : k \in hits}}

(***************************************************************************)
(* C39: whatever previewDir/hasFile calls came before (none included), the *)
(* listing a call works with for its path, the empty root path included,   *)
(* is the listing of an uncached scan of the archive under that path.      *)
(***************************************************************************)
C39_PreviewEqualsUncachedScan ==
    (fpc = "archive" /\ fout.calls > 0) => fout.listing = UncachedListing(fout.path)

====
